---- MODULE Spec2Model ----
(***************************************************************************)
(* A model of server.js: the article routes with their process-local      *)
(* cache, the like counter, and the role checks.  The relational store is  *)
(* modelled by the tables the handlers read and write; every awaited store *)
(* statement is one atomic step, and the synchronous code that follows an  *)
(* await (cache.set, cache.del, res.json) is one step with it.             *)
(***************************************************************************)
EXTENDS Integers, Sequences, FiniteSets, TLC

\* ------------------------------------------------------------------ bounds
MaxArticles == 2      \* article ids the store hands out: 1..MaxArticles
MaxLikes == 2         \* like requests accepted in one run
MaxReq == 2           \* requests in flight at once (concurrent specifications)
MaxUsers == 3         \* user ids the store hands out: 1..MaxUsers
MaxReads == 4         \* reads of one keyword by one user that are counted
MaxComments == 1
MaxTail == 3        \* characters a password adds to its five-letter stem      \* comment ids the store hands out: 1..MaxComments

VARIABLES
    articles,   \* table articles: article_id -> row (article_id = 0: no row)
    nextId,     \* AUTO_INCREMENT of articles.article_id
    users,      \* table users: id -> row (id = 0: no row)
    nextUserId, \* AUTO_INCREMENT of users.id
    keywords,   \* table keywords: the keywords stored
    visuals,    \* table visuallist: the media rows (the server only reads it)
    prefs,      \* tables user_interests, user_dislikes, user_subscriptions:
                \* kind -> set of <<user_id, topic>>
    reads,      \* table user_keyword_reads: <<user_id, keyword>> -> count
    comments,   \* table comments: id -> row (id = 0: no row)
    nextCommentId, \* AUTO_INCREMENT of comments.id
    cache,      \* the NodeCache: key -> stored value, domain = keys present
    reqs,       \* requests: slot -> handler position, locals and response
    lastDone,   \* history: the write answered last, if no read was answered since
    likeReqs,   \* history: like requests that found their article
    initial,    \* history: the articles table the server started with
    startup     \* initializeServer: the prefetch it is at, or "listening"

vars == <<articles, nextId, users, nextUserId, keywords, visuals, prefs, reads, comments,
          nextCommentId, cache, reqs, lastDone, likeReqs, initial, startup>>

engagement == <<prefs, reads, comments, nextCommentId>>

store == <<articles, nextId, users, nextUserId, keywords, visuals, engagement>>

ArticleIds == 1..MaxArticles
UserIds == 1..MaxUsers
CommentIds == 1..MaxComments
Slots == 1..MaxReq

\* ------------------------------------------------------- identifier strings
\* A path parameter is a sequence of characters.
Digits == <<"0", "1", "2", "3", "4", "5", "6", "7", "8", "9">>

DigitVal(c) == CHOOSE d \in 0..9 : Digits[d + 1] = c

IsDigit(c) == \E d \in 0..9 : Digits[d + 1] = c

\* Number.prototype.toString / String(article_id) of a non-negative integer
RECURSIVE toString(_)
toString(n) ==
    IF n < 10 THEN <<Digits[n + 1]>>
    ELSE toString(n \div 10) \o <<Digits[(n % 10) + 1]>>

\* String.prototype.padStart(width, "0")
RECURSIVE PadStart(_, _)
PadStart(s, width) == IF Len(s) >= width THEN s ELSE PadStart(<<"0">> \o s, width)

RECURSIVE TrimLeft(_)
TrimLeft(s) ==
    IF s # <<>> /\ Head(s) = " " THEN TrimLeft(Tail(s)) ELSE s

RECURSIVE TrimRight(_)
TrimRight(s) ==
    IF s # <<>> /\ s[Len(s)] = " " THEN TrimRight(SubSeq(s, 1, Len(s) - 1)) ELSE s

\* String.prototype.trim()
Trim(s) == TrimRight(TrimLeft(s))

LowerChars == <<"a", "b", "c", "d", "e", "f", "g", "h", "i", "j", "k", "l", "m",
                "n", "o", "p", "q", "r", "s", "t", "u", "v", "w", "x", "y", "z">>

UpperChars == <<"A", "B", "C", "D", "E", "F", "G", "H", "I", "J", "K", "L", "M",
                "N", "O", "P", "Q", "R", "S", "T", "U", "V", "W", "X", "Y", "Z">>

IsLower(c) == \E i \in 1..Len(LowerChars) : LowerChars[i] = c

IsUpper(c) == \E i \in 1..Len(UpperChars) : UpperChars[i] = c

\* String.prototype.toLowerCase(), and LOWER() of the store
toLowerCase(s) ==
    [i \in 1..Len(s) |->
        IF IsUpper(s[i])
        THEN LowerChars[CHOOSE k \in 1..Len(UpperChars) : UpperChars[k] = s[i]]
        ELSE s[i]]

\* The store compares the integer column article_id with a string parameter as
\* numbers: leading blanks are skipped and the digits read in base ten.
RECURSIVE DigitsValue(_, _)
DigitsValue(s, acc) ==
    IF s = <<>> \/ ~IsDigit(Head(s)) THEN acc
    ELSE DigitsValue(Tail(s), acc * 10 + DigitVal(Head(s)))

StoreNum(s) == DigitsValue(TrimLeft(s), 0)

\* ------------------------------------------------------------------- rows
\* The columns the handlers below decide on.  Names, emails and passwords are
\* sequences of characters, <<>> the empty string; titles, contents and ads are
\* opaque texts, "" the empty one (or NULL).
NoRow ==
    [article_id |-> 0, headline_title |-> "", article_content |-> "", author |-> <<>>,
     category |-> "", likes |-> 0, ads |-> ""]

NoUser ==
    [id |-> 0, username |-> <<>>, email |-> <<>>, password |-> <<>>, role |-> "",
     biography |-> ""]

NoComment == [id |-> 0, article_id |-> 0, username |-> <<>>, text |-> ""]

NoVisual ==
    [article_id |-> 0, name |-> "", description |-> "", file_type |-> "",
     css_class |-> "", filepath |-> ""]

\* function mapVisualFields(rows)
mapVisualFields(rows) ==
    {[name |-> IF row.name = "" THEN "No Name" ELSE row.name,
      description |-> row.description, file_type |-> row.file_type,
      css_class |-> row.css_class, filepath |-> row.filepath] : row \in rows}

NoArticle == [id |-> <<>>, title |-> "", content |-> "", author |-> <<>>, likes |-> 0]

\* SELECT * FROM articles
AllRows(arts) == {arts[a] : a \in {x \in DOMAIN arts : arts[x].article_id # 0}}

\* SELECT ... FROM articles WHERE article_id = ?  (the matching rows)
MatchIds(arts, s) == {a \in DOMAIN arts : arts[a].article_id # 0 /\ a = StoreNum(s)}

ArticleOf(arts, s) ==
    IF MatchIds(arts, s) = {} THEN NoRow ELSE arts[CHOOSE a \in MatchIds(arts, s) : TRUE]

\* SELECT ... FROM users WHERE id = ?
UserOf(us, uid) == IF uid \in DOMAIN us /\ us[uid].id # 0 THEN us[uid] ELSE NoUser

mapArticleFields(row) ==
    [id     |-> PadStart(toString(row.article_id), 3),
     title  |-> IF row.headline_title = "" THEN "Untitled Article" ELSE row.headline_title,
     content |-> IF row.article_content = "" THEN "Content not available"
                 ELSE row.article_content,
     author |-> row.author,
     likes  |-> row.likes]

\* ------------------------------------------------------------------ cache
AllArticlesKey == <<"all_articles">>
ArticleKey(articleId) == <<"article_">> \o articleId
VisualsKey(articleId) == <<"visuals_">> \o articleId

CacheHas(c, k) == k \in DOMAIN c

CacheSet(c, k, val) == [x \in (DOMAIN c) \cup {k} |-> IF x = k THEN val ELSE c[x]]

CacheDel(c, k) == [x \in (DOMAIN c) \ {k} |-> c[x]]

EmptyCache == [x \in {} |-> NoRow]

prefetchArticles(arts) ==
    [k \in {AllArticlesKey} \cup
           {ArticleKey(PadStart(toString(row.article_id), 3)) : row \in AllRows(arts)} |->
        IF k = AllArticlesKey THEN AllRows(arts)
        ELSE CHOOSE row \in AllRows(arts) :
                 k = ArticleKey(PadStart(toString(row.article_id), 3))]

\* prefetchVisuals: one entry per article that has media, under the id as stored
prefetchVisuals(vis) ==
    [k \in {VisualsKey(toString(row.article_id)) : row \in vis} |->
        {row \in vis : k = VisualsKey(toString(row.article_id))}]

\* the entries of two caches with different keys
CacheJoin(c, d) ==
    [k \in (DOMAIN c) \cup (DOMAIN d) |-> IF k \in DOMAIN c THEN c[k] ELSE d[k]]

\* a faulty variant of Expire: entries have no time to live
ExpireNever(k) ==
    /\ CacheHas(cache, k)
    /\ UNCHANGED vars

\* new NodeCache({ stdTTL: 3600 }): an entry is gone an hour after it was set
Expire(k) ==
    /\ CacheHas(cache, k)
    /\ cache' = CacheDel(cache, k)
    /\ UNCHANGED <<store, reqs, lastDone, likeReqs, initial, startup>>

CommentsKey(articleId) == <<"comments_">> \o articleId

\* prefetchComments: all_comments, and one entry per article that has comments
prefetchComments(cs) ==
    LET rows == {cs[c] : c \in {x \in DOMAIN cs : cs[x].id # 0}}
    IN  [k \in {<<"all_comments">>} \cup
               {CommentsKey(PadStart(toString(row.article_id), 3)) : row \in rows} |->
            IF k = <<"all_comments">> THEN rows
            ELSE {row \in rows : k = CommentsKey(PadStart(toString(row.article_id), 3))}]

\* ------------------------------------------------------- initializeServer
\* await prefetchArticles(): it fills the cache, or throws and the warmup ends
WarmArticles(ok) ==
    /\ startup = "prefetchArticles"
    /\ IF ok
       THEN /\ cache' = CacheJoin(prefetchArticles(articles), cache)
            /\ startup' = "prefetchVisuals"
       ELSE /\ startup' = "listening"
            /\ UNCHANGED cache
    /\ UNCHANGED <<store, reqs, lastDone, likeReqs, initial>>

\* await prefetchVisuals(): the same
WarmVisuals(ok) ==
    /\ startup = "prefetchVisuals"
    /\ IF ok
       THEN /\ cache' = CacheJoin(prefetchVisuals(visuals), cache)
            /\ startup' = "prefetchComments"
       ELSE /\ startup' = "listening"
            /\ UNCHANGED cache
    /\ UNCHANGED <<store, reqs, lastDone, likeReqs, initial>>

\* await prefetchComments(), which swallows its error; then app.listen
WarmComments(ok) ==
    /\ startup = "prefetchComments"
    /\ cache' = IF ok THEN CacheJoin(prefetchComments(comments), cache) ELSE cache
    /\ startup' = "listening"
    /\ UNCHANGED <<store, reqs, lastDone, likeReqs, initial>>

\* --------------------------------------------------------------- requests
\* req.body: an absent field and an empty one take the same `x || default`
\* branch, so "" and 0 stand for both.
NoBody ==
    [title |-> "", content |-> "", author |-> <<>>, category |-> "", likes |-> 0,
     ads |-> "", userId |-> 0, action |-> "", targetUserId |-> 0, role |-> "",
     username |-> <<>>, email |-> <<>>, password |-> <<>>, country |-> "",
     firstName |-> "", lastName |-> "", biography |-> "",
     topic |-> "",           \* interest / topic
     keywords |-> <<>>,      \* the keywords, when the field is an array
     isArray |-> FALSE,      \* Array.isArray(keywords)
     text |-> "", articleId |-> 0]

NoDone == [op |-> "none", id |-> <<>>, status |-> 0]

Idle ==
    [op |-> "none", pc |-> "idle", id |-> <<>>, articleId |-> <<>>, body |-> NoBody,
     kind |-> "",        \* the preference table the route writes
     row |-> NoRow,      \* the row a SELECT returned, or the row a statement matched
     rows |-> {}, subscriptions |-> {}, affected |-> 0, likes |-> 0, seen |-> 0,
     status |-> 0, article |-> NoArticle, insertId |-> 0,
     user |-> NoUser, passedAdmin |-> FALSE, usernameExists |-> FALSE,
     emailExists |-> FALSE, assignedRole |-> "",
     todo |-> <<>>,      \* the keywords the read-article loop has not finished
     failed |-> FALSE,   \* history: a statement of this request was rejected by the store
     pred |-> NoDone, wrote |-> FALSE, quiet |-> FALSE, dirty |-> FALSE]

ReadOps == {"get", "list"}
WriteOps == {"create", "put", "delete", "like"}

\* a faulty variant of Free: requests are taken while the warmup runs
FreeAnytime(r) == reqs[r].pc \in {"idle", "done", "hung"}

\* A request can enter slot r: app.listen has been called, and the slot holds
\* no running handler ("hung": the handler has ended without answering;
\* nothing of it is left to run).
Free(r) == startup = "listening" /\ reqs[r].pc \in {"idle", "done", "hung"}

InFlight(rec) == rec.pc \notin {"idle", "done", "hung"}

\* history: no write request is between its arrival and its answer
NoWriteInFlight == \A x \in Slots : ~(reqs[x].op \in WriteOps /\ InFlight(reqs[x]))

\* A request enters a slot: its locals are fresh; it remembers the write answered
\* just before it and whether a write was in flight when it arrived.
Arrive(op, s, body) ==
    [Idle EXCEPT !.op = op, !.id = s, !.body = body, !.pred = lastDone,
                 !.quiet = NoWriteInFlight]

\* history: a write has been accepted since the read in rec arrived
Overtaken(rec) == IF rec.op \in ReadOps THEN [rec EXCEPT !.dirty = TRUE] ELSE rec

\* res.status(st).json(...): the request is answered and its locals are gone.
Answer(r, rec, st) ==
    /\ reqs' = [reqs EXCEPT ![r] =
           [rec EXCEPT !.pc = "done", !.status = st, !.articleId = <<>>,
                       !.affected = 0]]
    /\ lastDone' = IF rec.op \in WriteOps /\ st \in {200, 201}
                   THEN [op |-> rec.op, id |-> rec.id, status |-> st]
                   ELSE NoDone

\* the handler goes on to its next await
Goto(r, rec, pc) ==
    /\ reqs' = [reqs EXCEPT ![r] = [rec EXCEPT !.pc = pc]]
    /\ UNCHANGED lastDone

\* a write request is accepted and goes on to its next await
Accept(r, rec, pc) ==
    /\ reqs' = [x \in Slots |-> IF x = r THEN [rec EXCEPT !.pc = pc] ELSE Overtaken(reqs[x])]
    /\ UNCHANGED lastDone

\* ------------------------------------------------- GET /api/articles/:id
GetStart(r, s) ==
    LET articleId == PadStart(Trim(s), 3)
        rec == [Arrive("get", s, NoBody) EXCEPT !.articleId = articleId]
    IN  /\ Free(r)
        /\ IF CacheHas(cache, ArticleKey(articleId))
           THEN Answer(r, [rec EXCEPT !.article =
                               mapArticleFields(cache[ArticleKey(articleId)])], 200)
           ELSE Goto(r, rec, "get_query")
        /\ UNCHANGED <<store, cache, likeReqs, initial, startup>>

GetQuery(r) ==
    LET rec == reqs[r]
        row == ArticleOf(articles, rec.articleId)
    IN  /\ rec.pc = "get_query"
        /\ IF row.article_id = 0
           THEN Answer(r, rec, 404)
           ELSE Goto(r, [rec EXCEPT !.row = row], "get_fill")
        /\ UNCHANGED <<store, cache, likeReqs, initial, startup>>

GetFill(r) ==
    LET rec == reqs[r]
    IN  /\ rec.pc = "get_fill"
        /\ cache' = CacheSet(cache, ArticleKey(rec.articleId), rec.row)
        /\ Answer(r, [rec EXCEPT !.article = mapArticleFields(rec.row)], 200)
        /\ UNCHANGED <<store, likeReqs, initial, startup>>

\* ----------------------------------------------------- GET /api/articles
ListStart(r) ==
    LET rec == Arrive("list", <<>>, NoBody)
    IN  /\ Free(r)
        /\ IF CacheHas(cache, AllArticlesKey)
           THEN Answer(r, [rec EXCEPT !.rows = cache[AllArticlesKey]], 200)
           ELSE Goto(r, rec, "list_query")
        /\ UNCHANGED <<store, cache, likeReqs, initial, startup>>

ListQuery(r) ==
    /\ reqs[r].pc = "list_query"
    /\ Goto(r, [reqs[r] EXCEPT !.rows = AllRows(articles)], "list_fill")
    /\ UNCHANGED <<store, cache, likeReqs, initial, startup>>

\* a faulty variant of ListFill: the rows are also stored one by one
ListFillFanOut(r) ==
    /\ reqs[r].pc = "list_fill"
    /\ cache' = CacheJoin(prefetchArticles([a \in ArticleIds |->
                     IF articles[a] \in reqs[r].rows THEN articles[a] ELSE NoRow]), cache)
    /\ Answer(r, reqs[r], 200)
    /\ UNCHANGED <<store, likeReqs, initial, startup>>

ListFill(r) ==
    /\ reqs[r].pc = "list_fill"
    /\ cache' = CacheSet(cache, AllArticlesKey, reqs[r].rows)
    /\ Answer(r, reqs[r], 200)
    /\ UNCHANGED <<store, likeReqs, initial, startup>>

\* ------------------------------------- the article reads of server copy.js
\* Its create, update and delete routes run the statements of the routes above
\* and answer as they do, without the cache.del calls, so on the same requests
\* the two servers hold the same articles table.
\* GET /api/articles/:id: SELECT by the trimmed, padded id, 404 or the mapped row
CopyGet(arts, s) ==
    LET articleId == PadStart(Trim(s), 3)
    IN  IF MatchIds(arts, articleId) = {}
        THEN [status |-> 404, article |-> NoArticle]
        ELSE [status |-> 200, article |-> mapArticleFields(ArticleOf(arts, articleId))]

\* GET /api/articles: res.json(rows) of SELECT * FROM articles
CopyList(arts) == [status |-> 200, rows |-> AllRows(arts)]

\* ---------------------------------------------------- POST /api/articles
\* INSERT INTO articles (headline_title, ..., likes) VALUES (?, ..., ?)
InsertRow(arts, id, body) ==
    [arts EXCEPT ![id] = [article_id |-> id, headline_title |-> body.title,
                          article_content |-> body.content, author |-> body.author,
                          category |-> body.category, likes |-> body.likes, ads |-> ""]]

CreateExec(r, body) ==
    /\ Free(r)
    /\ nextId \in ArticleIds
    /\ articles' = InsertRow(articles, nextId, body)
    /\ nextId' = nextId + 1
    /\ Accept(r, [Arrive("create", <<>>, body) EXCEPT !.insertId = nextId,
                                                       !.wrote = TRUE], "create_fin")
    /\ UNCHANGED <<users, nextUserId, keywords, visuals, engagement, cache, likeReqs, initial, startup>>

\* a faulty variant of CreateFinish: all_articles is kept
CreateFinishKeep(r) ==
    /\ reqs[r].pc = "create_fin"
    /\ Answer(r, reqs[r], 201)
    /\ UNCHANGED <<store, cache, likeReqs, initial, startup>>

CreateFinish(r) ==
    /\ reqs[r].pc = "create_fin"
    /\ cache' = CacheDel(cache, AllArticlesKey)
    /\ Answer(r, reqs[r], 201)
    /\ UNCHANGED <<store, likeReqs, initial, startup>>

\* ------------------------------------------------ PUT /api/articles/:id
\* Two handlers are registered for the route.  The router runs them in
\* registration order and goes on to the next one only when a handler calls
\* next(); neither handler does.
PutHandlers == <<"update", "permission">>

Dispatch(handlers) == Head(handlers)

\* the condition under which the permission handler lets the update through
MayUpdate(user, article) ==
    \/ user.role = "admin"
    \/ user.role = "editor" /\ article.article_id # 0 /\ article.author = user.username

\* UPDATE articles SET headline_title = ?, ..., likes = ? WHERE article_id = ?
UpdateRows(arts, s, body) ==
    [a \in DOMAIN arts |->
        IF a \in MatchIds(arts, s)
        THEN [arts[a] EXCEPT !.headline_title = body.title,
                             !.article_content = body.content,
                             !.author = body.author, !.category = body.category,
                             !.likes = body.likes]
        ELSE arts[a]]

PutUpdate(r, s, body) ==
    /\ articles' = UpdateRows(articles, s, body)
    /\ Accept(r, [Arrive("put", s, body) EXCEPT
                     !.affected = Cardinality(MatchIds(articles, s)),
                     !.row = ArticleOf(articles, s),
                     !.wrote = articles' # articles], "put_fin")

PutPermission(r, s, body) ==
    LET user == UserOf(users, body.userId)
        rec == Arrive("put", s, body)
    IN  /\ UNCHANGED articles
        /\ IF body.userId = 0 \/ user.id = 0 \/ ~MayUpdate(user, ArticleOf(articles, s))
           THEN Answer(r, rec, 403)
           ELSE Goto(r, rec, "hung")

PutExec(r, s, body) ==
    /\ Free(r)
    /\ IF Dispatch(PutHandlers) = "update"
       THEN PutUpdate(r, s, body)
       ELSE PutPermission(r, s, body)
    /\ UNCHANGED <<nextId, users, nextUserId, keywords, visuals, engagement, cache, likeReqs, initial, startup>>

\* a faulty variant of PutFinish: the keys are deleted before affectedRows is read
PutFinishEager(r) ==
    LET rec == reqs[r]
        paddedId == PadStart(rec.id, 3)
    IN  /\ rec.pc = "put_fin"
        /\ cache' = CacheDel(CacheDel(cache, AllArticlesKey), ArticleKey(paddedId))
        /\ Answer(r, rec, IF rec.affected = 0 THEN 404 ELSE 200)
        /\ UNCHANGED <<store, likeReqs, initial, startup>>

PutFinish(r) ==
    LET rec == reqs[r]
        paddedId == PadStart(rec.id, 3)
    IN  /\ rec.pc = "put_fin"
        /\ IF rec.affected = 0
           THEN /\ Answer(r, rec, 404)
                /\ UNCHANGED cache
           ELSE /\ cache' = CacheDel(CacheDel(cache, AllArticlesKey), ArticleKey(paddedId))
                /\ Answer(r, rec, 200)
        /\ UNCHANGED <<store, likeReqs, initial, startup>>

\* --------------------------------------------- DELETE /api/articles/:id
\* DELETE FROM articles WHERE article_id = ?
DeleteRows(arts, s) ==
    [a \in DOMAIN arts |-> IF a \in MatchIds(arts, s) THEN NoRow ELSE arts[a]]

DeleteExec(r, s) ==
    /\ Free(r)
    /\ articles' = DeleteRows(articles, s)
    /\ Accept(r, [Arrive("delete", s, NoBody) EXCEPT
                     !.affected = Cardinality(MatchIds(articles, s)),
                     !.row = ArticleOf(articles, s),
                     !.wrote = articles' # articles], "delete_fin")
    /\ UNCHANGED <<nextId, users, nextUserId, keywords, visuals, engagement, cache, likeReqs, initial, startup>>

DeleteFinish(r) ==
    LET rec == reqs[r]
        paddedId == PadStart(rec.id, 3)
    IN  /\ rec.pc = "delete_fin"
        /\ IF rec.affected = 0
           THEN /\ Answer(r, rec, 404)
                /\ UNCHANGED cache
           ELSE /\ cache' = CacheDel(CacheDel(CacheDel(cache, AllArticlesKey),
                                              ArticleKey(paddedId)),
                                     VisualsKey(paddedId))
                /\ Answer(r, rec, 200)
        /\ UNCHANGED <<store, likeReqs, initial, startup>>

\* ------------------------------------------ POST /api/articles/:id/like
\* the new count the handler computes from the count it read
\* a faulty variant of NewLikes: the decrement without its floor
NewLikesNoFloor(likes, action) ==
    IF action = "like" THEN likes + 1
    ELSE IF action = "unlike" THEN likes - 1
    ELSE likes

NewLikes(likes, action) ==
    IF action = "like" THEN likes + 1
    ELSE IF action = "unlike" /\ likes > 0 THEN likes - 1
    ELSE likes

\* UPDATE articles SET likes = ? WHERE article_id = ?
SetLikes(arts, s, likes) ==
    [a \in DOMAIN arts |->
        IF a \in MatchIds(arts, s) THEN [arts[a] EXCEPT !.likes = likes] ELSE arts[a]]

LikeRead(r, s, action) ==
    LET articleId == PadStart(Trim(s), 3)
        rec == [Arrive("like", s, [NoBody EXCEPT !.action = action])
                   EXCEPT !.articleId = articleId]
        row == ArticleOf(articles, articleId)
    IN  /\ Free(r)
        /\ IF action \notin {"like", "unlike"}
           THEN /\ Answer(r, rec, 400)
                /\ UNCHANGED likeReqs
           ELSE IF row.article_id = 0
           THEN /\ Answer(r, rec, 404)
                /\ UNCHANGED likeReqs
           ELSE /\ likeReqs < MaxLikes
                /\ likeReqs' = likeReqs + 1
                /\ Accept(r, [rec EXCEPT !.seen = row.likes], "like_write")
        /\ UNCHANGED <<store, cache, initial, startup>>

LikeWrite(r) ==
    LET rec == reqs[r]
        likes == NewLikes(rec.seen, rec.body.action)
    IN  /\ rec.pc = "like_write"
        /\ articles' = SetLikes(articles, rec.articleId, likes)
        /\ Goto(r, [rec EXCEPT !.likes = likes, !.wrote = articles' # articles], "like_fin")
        /\ UNCHANGED <<nextId, users, nextUserId, keywords, visuals, engagement, cache, likeReqs, initial, startup>>

LikeFinish(r) ==
    LET rec == reqs[r]
    IN  /\ rec.pc = "like_fin"
        /\ cache' = CacheDel(CacheDel(cache, AllArticlesKey), ArticleKey(rec.articleId))
        /\ Answer(r, rec, 200)
        /\ UNCHANGED <<store, likeReqs, initial, startup>>

\* ------------------------- store failures of the update, delete and like routes
\* createConnection or the first statement rejects: catch (error) answers 500
StoreRejects(r, op, s) ==
    /\ Free(r)
    /\ op \in {"put", "delete", "like"}
    /\ Answer(r, [Arrive(op, s, NoBody) EXCEPT !.failed = TRUE], 500)
    /\ UNCHANGED <<store, cache, likeReqs, initial, startup>>

\* a later awaited call rejects (the like's UPDATE, or connection.end()): the
\* catch answers 500 before any cache.del is reached
WriteRejects(r) ==
    /\ reqs[r].pc \in {"put_fin", "delete_fin", "like_write", "like_fin"}
    /\ Answer(r, [reqs[r] EXCEPT !.failed = TRUE], 500)
    /\ UNCHANGED <<store, cache, likeReqs, initial, startup>>

\* --------------------------------------------------- POST /api/register
Symbols == {"@", "$", "!", "%", "*", "?", "&"}

\* /^(?=.*[a-z])(?=.*[A-Z])(?=.*\d)(?=.*[@$!%*?&])[A-Za-z\d@$!%*?&]{8,}$/
passwordRegex(pw) ==
    /\ \E i \in 1..Len(pw) : IsLower(pw[i])
    /\ \E i \in 1..Len(pw) : IsUpper(pw[i])
    /\ \E i \in 1..Len(pw) : IsDigit(pw[i])
    /\ \E i \in 1..Len(pw) : pw[i] \in Symbols
    /\ \A i \in 1..Len(pw) :
           IsLower(pw[i]) \/ IsUpper(pw[i]) \/ IsDigit(pw[i]) \/ pw[i] \in Symbols
    /\ Len(pw) >= 8

\* bcrypt: hash is one-way and compare accepts exactly the hashed password
Hash(pw) == <<"bcrypt">> \o pw

Compare(pw, hashed) == hashed = Hash(pw)

UserRows(us) == {us[u] : u \in {x \in DOMAIN us : us[x].id # 0}}

\* a faulty variant of existingUsers: the comparison minds letter case
existingUsersExact(us, username, email) ==
    {u \in UserRows(us) : u.username = username \/ u.email = email}

\* SELECT * FROM users WHERE LOWER(username) = ? OR LOWER(email) = ?
existingUsers(us, username, email) ==
    {u \in UserRows(us) :
        \/ toLowerCase(u.username) = toLowerCase(username)
        \/ toLowerCase(u.email) = toLowerCase(email)}

RegisterCheck(r, body) ==
    LET rec == Arrive("register", <<>>, body)
        found == existingUsers(users, body.username, body.email)
    IN  /\ Free(r)
        /\ IF \/ body.username = <<>> \/ body.email = <<>> \/ body.password = <<>>
              \/ body.country = "" \/ body.firstName = "" \/ body.lastName = ""
           THEN Answer(r, rec, 400)
           ELSE IF ~passwordRegex(body.password)
           THEN Answer(r, rec, 400)
           ELSE IF found # {}
           THEN Answer(r, [rec EXCEPT
                    !.usernameExists = \E u \in found :
                        toLowerCase(u.username) = toLowerCase(body.username),
                    !.emailExists = \E u \in found :
                        toLowerCase(u.email) = toLowerCase(body.email)], 400)
           ELSE Goto(r, rec, "register_count")
        /\ UNCHANGED <<store, cache, likeReqs, initial, startup>>

\* a faulty variant of RegisterCount: nobody is promoted
RegisterCountUser(r) ==
    /\ reqs[r].pc = "register_count"
    /\ Goto(r, [reqs[r] EXCEPT !.assignedRole = "user"], "register_insert")
    /\ UNCHANGED <<store, cache, likeReqs, initial, startup>>

\* SELECT COUNT(*) AS count FROM users
RegisterCount(r) ==
    /\ reqs[r].pc = "register_count"
    /\ Goto(r, [reqs[r] EXCEPT !.assignedRole =
                    IF Cardinality(UserRows(users)) = 0 THEN "admin" ELSE "user"],
            "register_insert")
    /\ UNCHANGED <<store, cache, likeReqs, initial, startup>>

\* INSERT INTO users (username, email, password, ..., role, biography)
RegisterInsert(r) ==
    LET rec == reqs[r]
    IN  /\ rec.pc = "register_insert"
        /\ nextUserId \in UserIds
        /\ users' = [users EXCEPT ![nextUserId] =
               [id |-> nextUserId, username |-> rec.body.username,
                email |-> toLowerCase(rec.body.email),
                password |-> Hash(rec.body.password),
                role |-> rec.assignedRole, biography |-> rec.body.biography]]
        /\ nextUserId' = nextUserId + 1
        /\ Answer(r, [rec EXCEPT !.insertId = nextUserId, !.wrote = TRUE], 201)
        /\ UNCHANGED <<articles, nextId, keywords, visuals, engagement, cache, likeReqs, initial, startup>>

\* ------------------------------------------------------ POST /api/login
\* SELECT * FROM users WHERE LOWER(email) = ?   (users[0] of the result)
UserByEmail(us, email) ==
    LET found == {u \in UserRows(us) : toLowerCase(u.email) = toLowerCase(email)}
    IN  IF found = {} THEN NoUser
        ELSE CHOOSE u \in found : \A w \in found : u.id <= w.id

\* a faulty variant of userWithoutPassword: the row as stored
userAsStored(user) == user

\* const { password: _, ...userWithoutPassword } = user
userWithoutPassword(user) == [f \in (DOMAIN user) \ {"password"} |-> user[f]]

Login(r, body) ==
    LET rec == Arrive("login", <<>>, body)
        user == UserByEmail(users, body.email)
    IN  /\ Free(r)
        /\ IF body.email = <<>> \/ body.password = <<>>
           THEN Answer(r, rec, 400)
           ELSE IF user.id = 0 \/ ~Compare(body.password, user.password)
           THEN Answer(r, rec, 401)
           ELSE Answer(r, [rec EXCEPT !.user = userWithoutPassword(user)], 200)
        /\ UNCHANGED <<store, cache, likeReqs, initial, startup>>

\* ----------------------------------------------- PUT /api/editor/biography
BiographyCheck(r, body) ==
    LET rec == Arrive("biography", <<>>, body)
        user == UserOf(users, body.userId)
    IN  /\ Free(r)
        /\ IF body.userId = 0 \/ body.biography = ""
           THEN Answer(r, rec, 400)
           ELSE IF user.id = 0 \/ user.role # "editor"
           THEN Answer(r, rec, 403)
           ELSE Goto(r, rec, "biography_update")
        /\ UNCHANGED <<store, cache, likeReqs, initial, startup>>

\* a faulty variant of BiographyUpdate: the statement also sets the role
BiographyUpdateWithRole(r) ==
    LET rec == reqs[r]
        uid == rec.body.userId
    IN  /\ rec.pc = "biography_update"
        /\ users' = IF UserOf(users, uid).id # 0
                    THEN [users EXCEPT ![uid].biography = rec.body.biography,
                                       ![uid].role = "admin"]
                    ELSE users
        /\ Answer(r, [rec EXCEPT !.wrote = users' # users], 200)
        /\ UNCHANGED <<articles, nextId, nextUserId, keywords, visuals, engagement, cache,
                       likeReqs, initial, startup>>

\* UPDATE users SET biography = ? WHERE id = ?
BiographyUpdate(r) ==
    LET rec == reqs[r]
        uid == rec.body.userId
    IN  /\ rec.pc = "biography_update"
        /\ users' = IF UserOf(users, uid).id # 0
                    THEN [users EXCEPT ![uid].biography = rec.body.biography]
                    ELSE users
        /\ Answer(r, [rec EXCEPT !.wrote = users' # users], 200)
        /\ UNCHANGED <<articles, nextId, nextUserId, keywords, visuals, engagement, cache, likeReqs, initial, startup>>

\* -------------------------------------------------- PUT /api/user-profile
\* SELECT id FROM users WHERE (LOWER(username) = ? OR LOWER(email) = ?) AND id != ?
\* a faulty variant of conflicts: the acting user's own row counts
conflictsWithSelf(us, username, email, userId) == existingUsers(us, username, email)

\* SELECT id FROM users WHERE (LOWER(username) = ? OR LOWER(email) = ?) AND id != ?
conflicts(us, username, email, userId) ==
    {u \in existingUsers(us, username, email) : u.id # userId}

ProfileCheck(r, body) ==
    LET rec == Arrive("profile", <<>>, body)
    IN  /\ Free(r)
        /\ IF body.userId = 0 \/ body.username = <<>> \/ body.email = <<>>
           THEN Answer(r, rec, 400)
           ELSE IF conflicts(users, body.username, body.email, body.userId) # {}
           THEN Answer(r, rec, 400)
           ELSE Goto(r, rec, "profile_update")
        /\ UNCHANGED <<store, cache, likeReqs, initial, startup>>

\* UPDATE users SET username = ?, email = ? WHERE id = ?
ProfileUpdate(r) ==
    LET rec == reqs[r]
        uid == rec.body.userId
    IN  /\ rec.pc = "profile_update"
        /\ users' = IF UserOf(users, uid).id # 0
                    THEN [users EXCEPT ![uid].username = rec.body.username,
                                       ![uid].email = toLowerCase(rec.body.email)]
                    ELSE users
        /\ Answer(r, [rec EXCEPT !.wrote = users' # users], 200)
        /\ UNCHANGED <<articles, nextId, nextUserId, keywords, visuals, engagement, cache, likeReqs, initial, startup>>

\* ---------------------------------------------------------- /api/admin/*
\* The routes registered with requireAdmin, and "admin_other": any other path
\* under /api/admin/, which only the app.use("/api/admin/*") check handles.
AdminRoutes ==
    {"assign_role", "user_role", "admin_create", "admin_put", "admin_delete",
     "keyword_add", "keyword_delete", "article_keywords", "admin_other"}

Roles == {"admin", "editor", "moderator", "user"}

\* a faulty variant of includesRole: no validation
anyRole(role) == TRUE

\* ["admin", "editor", "moderator", "user"].includes(role)
includesRole(role) == role \in Roles

\* requireAdmin, before its lookup: const userId = req.body.userId || req.query.userId
AdminArrive(r, route, s, body) ==
    LET rec == Arrive(route, s, body)
    IN  /\ Free(r)
        /\ route \in AdminRoutes
        /\ IF body.userId = 0
           THEN Answer(r, rec, 403)
           ELSE Goto(r, rec, "admin_check")
        /\ UNCHANGED <<store, cache, likeReqs, initial, startup>>

\* a faulty variant of IsAdmin: any user the lookup finds passes
IsKnownUser(user) == user.id # 0

\* rows.length && rows[0].role === "admin"
IsAdmin(user) == user.id # 0 /\ user.role = "admin"

\* What a handler does with a ReferenceError (db is not defined) thrown in its
\* async body: the router of the installed express either never answers or
\* passes the rejection to its error handler, which answers 500.
Thrown == {"hung", "error"}

AfterThrow(r, rec, outcome) ==
    IF outcome = "hung" THEN Goto(r, rec, "hung") ELSE Answer(r, rec, 500)

\* requireAdmin's lookup, and on next() the handler up to its first await
AdminCheck(r, outcome) ==
    LET rec == [reqs[r] EXCEPT !.passedAdmin = IsAdmin(UserOf(users, reqs[r].body.userId))]
        body == rec.body
    IN  /\ rec.pc = "admin_check"
        /\ outcome \in Thrown
        /\ IF ~rec.passedAdmin
           THEN Answer(r, rec, 403)
           ELSE IF rec.op = "assign_role"
           THEN IF body.targetUserId = 0 \/ ~includesRole(body.role)
                THEN Answer(r, rec, 400)
                ELSE Goto(r, rec, "assign_exec")
           ELSE IF rec.op = "user_role"
           THEN IF ~includesRole(body.role)
                THEN Answer(r, rec, 400)
                ELSE AfterThrow(r, rec, outcome)
           ELSE IF rec.op \in {"admin_create", "admin_put"}
           THEN IF body.title = "" \/ body.content = ""
                THEN Answer(r, rec, 400)
                ELSE Goto(r, rec, IF rec.op = "admin_put" THEN "admin_put_exec"
                                  ELSE "admin_create_exec")
           ELSE IF rec.op = "admin_delete"
           THEN Goto(r, rec, "admin_delete_exec")
           ELSE IF rec.op \in {"keyword_add", "keyword_delete"}
           THEN AfterThrow(r, rec, outcome)
           ELSE IF rec.op = "article_keywords"
           THEN Answer(r, rec, 200)
           ELSE Answer(r, rec, 404)
        /\ UNCHANGED <<store, cache, likeReqs, initial, startup>>

\* POST /api/admin/assign-role: UPDATE users SET role = ? WHERE id = ?
AssignExec(r) ==
    LET rec == reqs[r]
        uid == rec.body.targetUserId
    IN  /\ rec.pc = "assign_exec"
        /\ users' = IF UserOf(users, uid).id # 0
                    THEN [users EXCEPT ![uid].role = rec.body.role]
                    ELSE users
        /\ Answer(r, [rec EXCEPT !.wrote = users' # users], 200)
        /\ UNCHANGED <<articles, nextId, nextUserId, keywords, visuals, engagement, cache, likeReqs, initial, startup>>

\* POST /api/admin/articles: its UPDATE is given req.params.id, which the route
\* does not have; the driver rejects an undefined parameter and the handler's
\* catch answers 500.
AdminCreateExec(r) ==
    /\ reqs[r].pc = "admin_create_exec"
    /\ Answer(r, reqs[r], 500)
    /\ UNCHANGED <<store, cache, likeReqs, initial, startup>>

\* UPDATE articles SET headline_title = ?, ..., likes = ?, ads = ? WHERE article_id = ?
AdminUpdateRows(arts, s, body) ==
    [a \in DOMAIN arts |->
        IF a \in MatchIds(arts, s)
        THEN [arts[a] EXCEPT !.headline_title = body.title,
                             !.article_content = body.content,
                             !.author = body.author, !.category = body.category,
                             !.likes = body.likes, !.ads = body.ads]
        ELSE arts[a]]

\* PUT /api/admin/articles/:id
AdminPutExec(r) ==
    LET rec == reqs[r]
    IN  /\ rec.pc = "admin_put_exec"
        /\ articles' = AdminUpdateRows(articles, rec.id, rec.body)
        /\ Answer(r, [rec EXCEPT !.row = ArticleOf(articles, rec.id),
                                 !.wrote = articles' # articles],
                  IF MatchIds(articles, rec.id) = {} THEN 404 ELSE 200)
        /\ UNCHANGED <<nextId, users, nextUserId, keywords, visuals, engagement, cache, likeReqs, initial, startup>>

\* DELETE /api/admin/articles/:id
AdminDeleteExec(r) ==
    LET rec == reqs[r]
    IN  /\ rec.pc = "admin_delete_exec"
        /\ articles' = DeleteRows(articles, rec.id)
        /\ Answer(r, [rec EXCEPT !.row = ArticleOf(articles, rec.id),
                                 !.wrote = articles' # articles],
                  IF MatchIds(articles, rec.id) = {} THEN 404 ELSE 200)
        /\ UNCHANGED <<nextId, users, nextUserId, keywords, visuals, engagement, cache, likeReqs, initial, startup>>

\* ------------------------------------------------------ GET /api/media/:id
\* cache.get(`visuals_${articleId}`): any cached array, the empty one too, is used
MediaStart(r, s) ==
    LET articleId == Trim(s)
        rec == [Arrive("media", s, NoBody) EXCEPT !.articleId = articleId]
    IN  /\ Free(r)
        /\ IF articleId = <<>>
           THEN Answer(r, rec, 400)
           ELSE IF CacheHas(cache, VisualsKey(articleId))
           THEN Answer(r, [rec EXCEPT !.rows =
                               mapVisualFields(cache[VisualsKey(articleId)])], 200)
           ELSE Goto(r, rec, "media_query")
        /\ UNCHANGED <<store, cache, likeReqs, initial, startup>>

\* SELECT * FROM visuallist WHERE article_id = ?
MediaQuery(r) ==
    LET rec == reqs[r]
    IN  /\ rec.pc = "media_query"
        /\ Goto(r, [rec EXCEPT !.rows =
                        {row \in visuals : row.article_id = StoreNum(rec.articleId)}],
                "media_fill")
        /\ UNCHANGED <<store, cache, likeReqs, initial, startup>>

\* cache.set(`visuals_${articleId}`, rows); res.json(mapVisualFields(rows))
MediaFill(r) ==
    LET rec == reqs[r]
    IN  /\ rec.pc = "media_fill"
        /\ cache' = CacheSet(cache, VisualsKey(rec.articleId), rec.rows)
        /\ Answer(r, [rec EXCEPT !.rows = mapVisualFields(rec.rows)], 200)
        /\ UNCHANGED <<store, likeReqs, initial, startup>>

\* the SELECT rejects: catch (error) answers 500 "Failed to fetch visuals"
MediaQueryFails(r) ==
    LET rec == reqs[r]
    IN  /\ rec.pc = "media_query"
        /\ Answer(r, [rec EXCEPT !.failed = TRUE], 500)
        /\ UNCHANGED <<store, cache, likeReqs, initial, startup>>

\* ------------------- /api/user/interests, /api/user/dislikes, /api/user/subscriptions
\* These handlers, read-article and the comment handlers are taken in one step
\* each: every specification below that uses them serves one request at a time.
PrefKinds == {"interests", "dislikes", "subscriptions"}

\* a faulty variant of PreferenceAdd: a plain INSERT, whose duplicate-key error
\* the handler does not catch
PreferenceAddPlain(r, kind, body) ==
    LET rec == [Arrive("pref_add", <<>>, body) EXCEPT !.kind = kind]
    IN  /\ Free(r)
        /\ kind \in PrefKinds
        /\ IF body.userId = 0 \/ body.topic = ""
           THEN /\ Answer(r, rec, 400)
                /\ UNCHANGED prefs
           ELSE IF <<body.userId, body.topic>> \in prefs[kind]
           THEN /\ Goto(r, rec, "hung")
                /\ UNCHANGED prefs
           ELSE /\ prefs' = [prefs EXCEPT ![kind] = @ \cup {<<body.userId, body.topic>>}]
                /\ Answer(r, [rec EXCEPT !.wrote = TRUE], 200)
        /\ UNCHANGED <<articles, nextId, users, nextUserId, keywords, visuals, reads, comments,
                       nextCommentId, cache, likeReqs, initial, startup>>

\* POST: INSERT IGNORE INTO user_<kind> (user_id, <topic>) VALUES (?, ?)
PreferenceAdd(r, kind, body) ==
    LET rec == [Arrive("pref_add", <<>>, body) EXCEPT !.kind = kind]
    IN  /\ Free(r)
        /\ kind \in PrefKinds
        /\ IF body.userId = 0 \/ body.topic = ""
           THEN /\ Answer(r, rec, 400)
                /\ UNCHANGED prefs
           ELSE /\ prefs' = [prefs EXCEPT ![kind] = @ \cup {<<body.userId, body.topic>>}]
                /\ Answer(r, [rec EXCEPT !.wrote = prefs' # prefs], 200)
        /\ UNCHANGED <<articles, nextId, users, nextUserId, keywords, visuals, reads, comments,
                       nextCommentId, cache, likeReqs, initial, startup>>

\* POST, when createConnection or the INSERT rejects: the handler has no try/catch,
\* so the rejection leaves its async body as a ReferenceError does
PreferenceAddFails(r, kind, body, outcome) ==
    LET rec == [Arrive("pref_add", <<>>, body) EXCEPT !.kind = kind, !.failed = TRUE]
    IN  /\ Free(r)
        /\ kind \in PrefKinds
        /\ body.userId # 0 /\ body.topic # ""
        /\ AfterThrow(r, rec, outcome)
        /\ UNCHANGED <<store, cache, likeReqs, initial, startup>>

\* DELETE: DELETE FROM user_<kind> WHERE user_id=? AND <topic>=?
PreferenceRemove(r, kind, body) ==
    LET rec == [Arrive("pref_remove", <<>>, body) EXCEPT !.kind = kind]
    IN  /\ Free(r)
        /\ kind \in PrefKinds
        /\ IF body.userId = 0 \/ body.topic = ""
           THEN /\ Answer(r, rec, 400)
                /\ UNCHANGED prefs
           ELSE /\ prefs' = [prefs EXCEPT ![kind] = @ \ {<<body.userId, body.topic>>}]
                /\ Answer(r, [rec EXCEPT !.wrote = prefs' # prefs], 200)
        /\ UNCHANGED <<articles, nextId, users, nextUserId, keywords, visuals, reads, comments,
                       nextCommentId, cache, likeReqs, initial, startup>>

\* ------------------------------------------- POST /api/user/read-article
NoReads == [k \in {} |-> 0]

ReadCount(rd, k) == IF k \in DOMAIN rd THEN rd[k] ELSE 0

\* if (row && row.count === 3)
InterestThreshold == 3

\* for (const keyword of keywords): INSERT ... ON DUPLICATE KEY UPDATE
\* count = count + 1, then INSERT IGNORE INTO user_interests when the count is 3.
\* The result is <<user_keyword_reads, user_interests>>.
RECURSIVE readKeywords(_, _, _, _)
readKeywords(rd, ints, userId, kws) ==
    IF kws = <<>> THEN <<rd, ints>>
    ELSE LET k == <<userId, Head(kws)>>
             count == ReadCount(rd, k) + 1
             rd2 == [x \in (DOMAIN rd) \cup {k} |-> IF x = k THEN count ELSE rd[x]]
             ints2 == IF count = InterestThreshold THEN ints \cup {k} ELSE ints
         IN  readKeywords(rd2, ints2, userId, Tail(kws))

ReadArticle(r, body) ==
    LET rec == Arrive("read_article", <<>>, body)
        after == readKeywords(reads, prefs["interests"], body.userId, body.keywords)
    IN  /\ Free(r)
        /\ IF body.userId = 0 \/ body.articleId = 0 \/ ~body.isArray
           THEN /\ Answer(r, rec, 400)
                /\ UNCHANGED <<reads, prefs>>
           ELSE /\ \A i \in 1..Len(body.keywords) :
                       ReadCount(reads, <<body.userId, body.keywords[i]>>)
                           + Len(body.keywords) <= MaxReads
                /\ reads' = after[1]
                /\ prefs' = [prefs EXCEPT !["interests"] = after[2]]
                /\ Answer(r, [rec EXCEPT !.wrote = reads' # reads], 200)
        /\ UNCHANGED <<articles, nextId, users, nextUserId, keywords, visuals, comments,
                       nextCommentId, cache, likeReqs, initial, startup>>

\* The same handler, one step per statement, for requests that interleave.
\* validation; the loop starts with the first keyword
ReadStart(r, body) ==
    LET rec == Arrive("read_article", <<>>, body)
    IN  /\ Free(r)
        /\ IF body.userId = 0 \/ body.articleId = 0 \/ ~body.isArray
           THEN Answer(r, rec, 400)
           ELSE IF body.keywords = <<>>
           THEN Answer(r, rec, 200)
           ELSE Goto(r, [rec EXCEPT !.todo = body.keywords], "read_upsert")
        /\ UNCHANGED <<store, cache, likeReqs, initial, startup>>

\* the loop goes on to its next keyword, or the handler answers
ReadNext(r, rec) ==
    IF Len(rec.todo) > 1
    THEN Goto(r, [rec EXCEPT !.todo = Tail(rec.todo)], "read_upsert")
    ELSE Answer(r, [rec EXCEPT !.todo = <<>>], 200)

\* INSERT INTO user_keyword_reads ... ON DUPLICATE KEY UPDATE count = count + 1
ReadUpsert(r) ==
    LET rec == reqs[r]
        k == <<rec.body.userId, Head(rec.todo)>>
    IN  /\ rec.pc = "read_upsert"
        /\ ReadCount(reads, k) < MaxReads
        /\ reads' = [x \in (DOMAIN reads) \cup {k} |->
                        IF x = k THEN ReadCount(reads, k) + 1 ELSE reads[x]]
        /\ Goto(r, [rec EXCEPT !.wrote = TRUE], "read_select")
        /\ UNCHANGED <<articles, nextId, users, nextUserId, keywords, visuals, prefs, comments,
                       nextCommentId, cache, likeReqs, initial, startup>>

\* a faulty variant of AtThreshold: every count from 2 on promotes
AboveOne(count) == count > 1

\* a faulty variant of AtThreshold: the test the handler's comment describes
AtLeastThreshold(count) == count >= InterestThreshold

\* row.count === 3
AtThreshold(count) == count = InterestThreshold

\* SELECT count FROM user_keyword_reads WHERE user_id=? AND keyword=?
ReadSelect(r) ==
    LET rec == reqs[r]
        k == <<rec.body.userId, Head(rec.todo)>>
        seen == [rec EXCEPT !.seen = ReadCount(reads, k)]
    IN  /\ rec.pc = "read_select"
        /\ IF k \in DOMAIN reads /\ AtThreshold(ReadCount(reads, k))
           THEN Goto(r, seen, "read_promote")
           ELSE ReadNext(r, seen)
        /\ UNCHANGED <<store, cache, likeReqs, initial, startup>>

\* INSERT IGNORE INTO user_interests (user_id, interest) VALUES (?, ?)
ReadPromote(r) ==
    LET rec == reqs[r]
        k == <<rec.body.userId, Head(rec.todo)>>
    IN  /\ rec.pc = "read_promote"
        /\ prefs' = [prefs EXCEPT !["interests"] = @ \cup {k}]
        /\ ReadNext(r, rec)
        /\ UNCHANGED <<articles, nextId, users, nextUserId, keywords, visuals, reads, comments,
                       nextCommentId, cache, likeReqs, initial, startup>>

\* a statement of the loop rejects: the handler has no try/catch; what the
\* earlier statements wrote stays
ReadFails(r, outcome) ==
    LET rec == reqs[r]
    IN  /\ rec.pc \in {"read_upsert", "read_select", "read_promote"}
        /\ AfterThrow(r, [rec EXCEPT !.failed = TRUE, !.todo = <<>>], outcome)
        /\ UNCHANGED <<store, cache, likeReqs, initial, startup>>

\* ---------------------------------------------------- GET /api/user/articles
\* a faulty variant of filtered: every article
unfiltered(rows, dislikedTopics) == rows

\* articles.filter(a => !dislikedTopics.includes(a.category))
filtered(rows, dislikedTopics) == {a \in rows : a.category \notin dislikedTopics}

\* articles.filter(a => subscribedTopics.includes(a.category))
subscribedArticles(rows, subscribedTopics) == {a \in rows : a.category \in subscribedTopics}

\* SELECT topic FROM user_<kind> WHERE user_id=?
TopicsOf(kind, userId) == {p[2] : p \in {q \in prefs[kind] : q[1] = userId}}

UserArticles(r, body) ==
    LET rec == Arrive("feed", <<>>, body)
        rows == AllRows(articles)
    IN  /\ Free(r)
        /\ IF body.userId = 0
           THEN Answer(r, rec, 400)
           ELSE Answer(r, [rec EXCEPT
                    !.rows = filtered(rows, TopicsOf("dislikes", body.userId)),
                    !.subscriptions =
                        subscribedArticles(rows, TopicsOf("subscriptions", body.userId))],
                    200)
        /\ UNCHANGED <<store, cache, likeReqs, initial, startup>>

\* ------------------------------------------ POST /api/articles/:id/comments
\* INSERT INTO comments (article_id, username, text, created_at) VALUES (?, ?, ?, NOW())
PostComment(r, s, body) ==
    LET articleId == PadStart(Trim(s), 3)
        rec == [Arrive("comment_post", s, body) EXCEPT !.articleId = articleId]
    IN  /\ Free(r)
        /\ IF body.username = <<>> \/ body.text = ""
           THEN /\ Answer(r, rec, 400)
                /\ UNCHANGED <<comments, nextCommentId>>
           ELSE /\ nextCommentId \in CommentIds
                /\ comments' = [comments EXCEPT ![nextCommentId] =
                       [id |-> nextCommentId, article_id |-> StoreNum(articleId),
                        username |-> body.username, text |-> body.text]]
                /\ nextCommentId' = nextCommentId + 1
                /\ Answer(r, [rec EXCEPT !.insertId = nextCommentId, !.wrote = TRUE], 201)
        /\ UNCHANGED <<articles, nextId, users, nextUserId, keywords, visuals, prefs, reads,
                       cache, likeReqs, initial, startup>>

\* ------------------------------------------- GET /api/articles/:id/comments
\* SELECT ... FROM comments WHERE article_id = ? ORDER BY created_at ASC
GetComments(r, s) ==
    LET articleId == PadStart(Trim(s), 3)
        rec == [Arrive("comment_list", s, NoBody) EXCEPT !.articleId = articleId]
    IN  /\ Free(r)
        /\ Answer(r, [rec EXCEPT !.rows =
                   {comments[c] : c \in {x \in CommentIds :
                        comments[x].id # 0 /\ comments[x].article_id = StoreNum(articleId)}}],
                  200)
        /\ UNCHANGED <<store, cache, likeReqs, initial, startup>>

\* ------------------------------------------------ DELETE /api/comments/:id
\* a faulty variant of IsModerator: admins may delete comments too
IsModeratorOrAdmin(user) == user.id # 0 /\ user.role \in {"moderator", "admin"}

\* !(!rows.length || rows[0].role !== "moderator")
IsModerator(user) == user.id # 0 /\ user.role = "moderator"

\* DELETE FROM comments WHERE id = ?
DeleteComment(r, s, body) ==
    LET rec == Arrive("comment_delete", s, body)
        user == UserOf(users, body.userId)
    IN  /\ Free(r)
        /\ IF body.userId = 0
           THEN /\ Answer(r, rec, 403)
                /\ UNCHANGED comments
           ELSE IF ~IsModerator(user)
           THEN /\ Answer(r, rec, 403)
                /\ UNCHANGED comments
           ELSE /\ comments' = [c \in CommentIds |->
                       IF comments[c].id # 0 /\ comments[c].id = StoreNum(s)
                       THEN NoComment ELSE comments[c]]
                /\ Answer(r, [rec EXCEPT !.wrote = comments' # comments], 200)
        /\ UNCHANGED <<articles, nextId, users, nextUserId, keywords, visuals, prefs, reads,
                       nextCommentId, cache, likeReqs, initial, startup>>

\* ------------------------------------------------------------ initial state
\* The store as the server finds it, and the cache after initializeServer:
\* warmed by prefetchArticles, or empty when the warmup failed.
Alice == <<"a", "l", "i", "c", "e">>
Bob == <<"b", "o", "b">>
Carol == <<"c", "a", "r", "o", "l">>

MailOf(name) == name \o <<"@", "x">>

GoodPassword == <<"P", "a", "s", "s", "w", "0", "r", "d", "!">>
WeakPassword == <<"p", "a", "s", "s">>

\* article 1 has two media items, one of them without a name; article 2 has none
VisualList ==
    {[NoVisual EXCEPT !.article_id = 1, !.name = "pic", !.file_type = "image",
                      !.filepath = "/p.png"],
     [NoVisual EXCEPT !.article_id = 1, !.file_type = "video", !.filepath = "/v.mp4"]}

InitLikes == {0, 1}

InitArticles ==
    {[a \in ArticleIds |->
        IF a = 1
        THEN [NoRow EXCEPT !.article_id = 1, !.headline_title = "A",
                           !.article_content = "text", !.author = Bob,
                           !.category = "news", !.likes = l]
        ELSE NoRow] : l \in InitLikes}

\* an admin and two editors, one of them the author of article 1
SeedUsers ==
    [u \in UserIds |->
        IF u = 1 THEN [NoUser EXCEPT !.id = 1, !.username = Alice, !.email = MailOf(Alice),
                                     !.password = Hash(GoodPassword), !.role = "admin"]
        ELSE IF u = 2 THEN [NoUser EXCEPT !.id = 2, !.username = Bob,
                                          !.email = MailOf(Bob),
                                          !.password = Hash(GoodPassword),
                                          !.role = "editor"]
        ELSE IF u = 3 THEN [NoUser EXCEPT !.id = 3, !.username = Carol,
                                          !.email = MailOf(Carol), !.role = "editor"]
        ELSE NoUser]

InitServing ==
    /\ articles \in InitArticles
    /\ nextId = 2
    /\ users = SeedUsers
    /\ nextUserId = 4
    /\ keywords = {}
    /\ visuals = VisualList
    /\ prefs = [kind \in PrefKinds |-> {}]
    /\ reads = NoReads
    /\ comments = [c \in CommentIds |-> NoComment]
    /\ nextCommentId = 1
    /\ cache \in {EmptyCache, prefetchArticles(articles)}
    /\ reqs = [r \in Slots |-> Idle]
    /\ lastDone = NoDone
    /\ likeReqs = 0
    /\ initial = articles
    /\ startup = "listening"

\* ------------------------------------------------------------ request inputs
IdStrings ==
    {<<"1">>, <<"0", "0", "1">>, <<"0", "0", "0", "1">>, <<" ", "1">>, <<"2">>}

PutBodies ==
    {[NoBody EXCEPT !.title = "B", !.author = Bob, !.likes = 1, !.userId = 2],
     [NoBody EXCEPT !.title = "B", !.author = Bob, !.userId = 3],
     [NoBody EXCEPT !.author = Carol, !.likes = -1]}

Actions == {"like", "unlike", "bogus"}

\* ------------------------------------- requests handled one at a time
ReadRequest(r, ids) ==
    \/ \E s \in ids : GetStart(r, s)
    \/ GetQuery(r)
    \/ GetFill(r)
    \/ ListStart(r)
    \/ ListQuery(r)
    \/ ListFill(r)

PutRequest(r, ids, bodies) ==
    \/ \E s \in ids, body \in bodies : PutExec(r, s, body)
    \/ PutFinish(r)

DeleteRequest(r, ids) ==
    \/ \E s \in ids : DeleteExec(r, s)
    \/ DeleteFinish(r)

CreateRequest(r, bodies) ==
    \/ \E body \in bodies : CreateExec(r, body)
    \/ CreateFinish(r)

LikeRequest(r, ids, actions) ==
    \/ \E s \in ids, action \in actions : LikeRead(r, s, action)
    \/ LikeWrite(r)
    \/ LikeFinish(r)

\* reads, updates and deletes of one client, under every spelling of the id
NextSeq ==
    \/ ReadRequest(1, IdStrings)
    \/ PutRequest(1, IdStrings, PutBodies)
    \/ DeleteRequest(1, IdStrings)

SpecSeq == InitServing /\ [][NextSeq]_vars

\* sequential likes: creates, updates and likes of one client
LikeIds == {<<"1">>, <<"2">>}

\* client-supplied like counts: none, a positive one, a negative one
LikeBodies ==
    {[NoBody EXCEPT !.title = "B", !.author = Bob, !.likes = l] : l \in {0, 1, -1}}

NextLikeSeq ==
    \/ CreateRequest(1, LikeBodies)
    \/ PutRequest(1, {<<"1">>}, LikeBodies)
    \/ LikeRequest(1, LikeIds, Actions)

SpecLikeSeq == InitServing /\ [][NextLikeSeq]_vars

\* ------------------------------------------------ requests in any interleaving
CanonIds == {<<"1">>}

ConcBodies == {[NoBody EXCEPT !.title = "B", !.author = Bob, !.likes = 1]}

NextConc ==
    \E r \in Slots :
        \/ ReadRequest(r, CanonIds)
        \/ PutRequest(r, CanonIds, ConcBodies)
        \/ DeleteRequest(r, CanonIds)
        \/ LikeRequest(r, CanonIds, {"like"})

SpecConc == InitServing /\ [][NextConc]_vars

\* nothing but like requests, in any interleaving
NextLikes == \E r \in Slots : LikeRequest(r, {<<"1">>, <<"0", "0", "1">>}, {"like"})

SpecLikes == InitServing /\ [][NextLikes]_vars

\* ------------------------------------------- accounts, roles and admin routes
EmptyUsers == [u \in UserIds |-> NoUser]

\* a server started on a store that holds articles and no user yet
InitAuth ==
    /\ articles \in {arts \in InitArticles : arts[1].likes = 0}
    /\ nextId = 2
    /\ users = EmptyUsers
    /\ nextUserId = 1
    /\ keywords = {}
    /\ visuals = VisualList
    /\ prefs = [kind \in PrefKinds |-> {}]
    /\ reads = NoReads
    /\ comments = [c \in CommentIds |-> NoComment]
    /\ nextCommentId = 1
    /\ cache = prefetchArticles(articles)
    /\ reqs = [r \in Slots |-> Idle]
    /\ lastDone = NoDone
    /\ likeReqs = 0
    /\ initial = articles
    /\ startup = "listening"

Person(name, pw) ==
    [NoBody EXCEPT !.username = name, !.email = MailOf(name), !.password = pw,
                   !.country = "NL", !.firstName = "F", !.lastName = "L"]

\* the name with its first letter in upper case
Capital(name) == <<UpperChars[CHOOSE i \in 1..Len(LowerChars) : LowerChars[i] = Head(name)]>>
                     \o Tail(name)

\* alice, bob, a weak password, alice's username in another case with a fresh
\* email, and bob's email in another case with a fresh username
RegisterBodies ==
    {Person(Alice, GoodPassword), Person(Bob, GoodPassword), Person(Carol, WeakPassword),
     [Person(Capital(Alice), GoodPassword) EXCEPT !.email = MailOf(Carol)],
     [Person(Carol, GoodPassword) EXCEPT !.email = Capital(MailOf(Bob))]}

\* acting users: none given, and the first two ids, which the store may or may
\* not hold yet
ActingIds == {0, 1, 2}

AssignBodies ==
    {[NoBody EXCEPT !.userId = u, !.targetUserId = a[1], !.role = a[2]] :
        u \in ActingIds, a \in {<<2, "editor">>, <<1, "user">>, <<2, "root">>}}

AdminArticleBodies ==
    {[NoBody EXCEPT !.userId = u, !.title = "B", !.content = "c", !.author = Bob,
                    !.ads = "ad"] : u \in ActingIds}

AdminBodies(route) ==
    IF route \in {"assign_role", "user_role"} THEN AssignBodies
    ELSE IF route \in {"admin_create", "admin_put"} THEN AdminArticleBodies
    ELSE {[NoBody EXCEPT !.userId = u] : u \in ActingIds}

\* admin updates and deletes of articles between reads, one request at a time
NextAdminCache ==
    \/ \E route \in {"admin_put", "admin_delete"}, s \in {<<"1">>, <<"2">>} :
           \E body \in AdminBodies(route) : AdminArrive(1, route, s, body)
    \/ \E outcome \in Thrown : AdminCheck(1, outcome)
    \/ AdminPutExec(1)
    \/ AdminDeleteExec(1)
    \/ ReadRequest(1, CanonIds)

SpecAdminCache == InitServing /\ [][NextAdminCache]_vars

\* updates, deletes and likes of a stored and of a missing article between
\* reads, any statement of which the store may reject
MissingIds == {<<"1">>, <<"2">>}

NextNotFound ==
    \/ ReadRequest(1, CanonIds)
    \/ PutRequest(1, MissingIds, ConcBodies)
    \/ DeleteRequest(1, MissingIds)
    \/ LikeRequest(1, MissingIds, {"like"})
    \/ \E op \in {"put", "delete", "like"}, s \in MissingIds : StoreRejects(1, op, s)
    \/ WriteRejects(1)

SpecNotFound == InitServing /\ [][NextNotFound]_vars

\* creates between reads of the list and of both ids, one request at a time
NextCreate ==
    \/ ReadRequest(1, {<<"1">>, <<"2">>})
    \/ CreateRequest(1, LikeBodies)

SpecCreate == InitServing /\ [][NextCreate]_vars

\* ------------------------------------------------------------- expiry
\* the server after a warmup that succeeded
InitWarm ==
    /\ InitServing
    /\ articles[1].likes = 0
    /\ cache = prefetchArticles(articles)

\* the keys the reads below use
ReadKeys == {AllArticlesKey, ArticleKey(<<"0", "0", "1">>)}

\* reads in any interleaving with the updates of one client, which spell the id
\* with four digits, while entries expire
NextExpiry ==
    \/ \E r \in Slots \ {1} : ReadRequest(r, CanonIds)
    \/ PutRequest(1, {<<"0", "0", "0", "1">>}, ConcBodies)
    \/ \E k \in ReadKeys : Expire(k)

SpecExpiry == InitWarm /\ [][NextExpiry]_vars

\* every handler goes on after each await, and every entry set expires
FairExpiry ==
    /\ SpecExpiry
    /\ \A r \in Slots :
           /\ WF_vars(GetQuery(r)) /\ WF_vars(GetFill(r))
           /\ WF_vars(ListQuery(r)) /\ WF_vars(ListFill(r))
           /\ WF_vars(PutFinish(r))
    /\ \A k \in ReadKeys : WF_vars(Expire(k))

\* ------------------------------------------------------------------ startup
\* the process after checkDatabaseConnection: nothing cached, not listening
InitBoot ==
    /\ articles \in InitArticles
    /\ nextId = 2
    /\ users = SeedUsers
    /\ nextUserId = MaxUsers + 1
    /\ keywords = {}
    /\ visuals = VisualList
    /\ prefs = [kind \in PrefKinds |-> {}]
    /\ reads = NoReads
    /\ comments = [c \in CommentIds |-> NoComment]
    /\ nextCommentId = 1
    /\ cache = EmptyCache
    /\ reqs = [r \in Slots |-> Idle]
    /\ lastDone = NoDone
    /\ likeReqs = 0
    /\ initial = articles
    /\ startup = "prefetchArticles"

\* the warmup, then reads, updates and deletes of one client
NextStartup ==
    \/ \E ok \in BOOLEAN : WarmArticles(ok)
    \/ \E ok \in BOOLEAN : WarmVisuals(ok)
    \/ \E ok \in BOOLEAN : WarmComments(ok)
    \/ ReadRequest(1, CanonIds)
    \/ PutRequest(1, CanonIds, ConcBodies)
    \/ DeleteRequest(1, CanonIds)

SpecStartup == InitBoot /\ [][NextStartup]_vars

\* the requests of POST /api/register
RegisterRequest(r, bodies) ==
    \/ \E body \in bodies : RegisterCheck(r, body)
    \/ RegisterCount(r)
    \/ RegisterInsert(r)

AdminRequest(r, ids) ==
    \/ \E route \in AdminRoutes, s \in ids :
            \E body \in AdminBodies(route) : AdminArrive(r, route, s, body)
    \/ \E outcome \in Thrown : AdminCheck(r, outcome)
    \/ AssignExec(r)
    \/ AdminCreateExec(r)
    \/ AdminPutExec(r)
    \/ AdminDeleteExec(r)

\* registrations and every admin route, one request at a time
NextAuth ==
    \/ RegisterRequest(1, RegisterBodies)
    \/ AdminRequest(1, CanonIds)

SpecAuth == InitAuth /\ [][NextAuth]_vars

\* ------------------- registrations and profile updates in any interleaving
AccountBodies ==
    {Person(Alice, GoodPassword), Person(Bob, GoodPassword),
     [Person(Capital(Alice), GoodPassword) EXCEPT !.email = MailOf(Carol)]}

\* the first user renames themselves to "Bob"
RenameBodies ==
    {[NoBody EXCEPT !.userId = 1, !.username = Capital(Bob), !.email = MailOf(Alice)]}

NextAccounts ==
    \E r \in Slots :
        \/ RegisterRequest(r, AccountBodies)
        \/ \E body \in RenameBodies : ProfileCheck(r, body)
        \/ ProfileUpdate(r)

SpecAccounts == InitAuth /\ [][NextAccounts]_vars

\* ------------------------------------------------------ read-article events
ReadEvent(u, kws) ==
    [NoBody EXCEPT !.userId = u, !.articleId = 1, !.keywords = kws, !.isArray = TRUE]

ReadRequestSteps(r, bodies) ==
    \/ \E body \in bodies : ReadStart(r, body)
    \/ ReadUpsert(r)
    \/ ReadSelect(r)
    \/ ReadPromote(r)

\* events of two users, each naming one or two keywords once, one at a time
NextReadSeq ==
    ReadRequestSteps(1, {ReadEvent(u, kws) : u \in {1, 2},
                                            kws \in {<<"k">>, <<"j">>, <<"k", "j">>}})

SpecReadSeq == InitServing /\ [][NextReadSeq]_vars

\* events of one user in any interleaving
NextReadConc ==
    \E r \in Slots : ReadRequestSteps(r, {ReadEvent(2, kws) : kws \in {<<"k">>, <<"j">>}})

SpecReadConc == InitServing /\ [][NextReadConc]_vars

\* --------------------------------------------------------------------- media
\* the cache after a warmup that failed, that failed at the visuals, or succeeded
InitMedia ==
    /\ articles \in {arts \in InitArticles : arts[1].likes = 0}
    /\ nextId = 2
    /\ users = SeedUsers
    /\ nextUserId = MaxUsers + 1
    /\ keywords = {}
    /\ visuals = VisualList
    /\ prefs = [kind \in PrefKinds |-> {}]
    /\ reads = NoReads
    /\ comments = [c \in CommentIds |-> NoComment]
    /\ nextCommentId = 1
    /\ cache \in {EmptyCache, prefetchArticles(articles),
                  CacheJoin(prefetchArticles(articles), prefetchVisuals(visuals))}
    /\ reqs = [r \in Slots |-> Idle]
    /\ lastDone = NoDone
    /\ likeReqs = 0
    /\ initial = articles
    /\ startup = "listening"

MediaIds == {<<"1">>, <<"2">>, <<"0", "0", "1">>, <<" ">>}

NextMedia ==
    \/ \E s \in MediaIds : MediaStart(1, s)
    \/ MediaQuery(1)
    \/ MediaFill(1)
    \/ DeleteRequest(1, CanonIds)

SpecMedia == InitMedia /\ [][NextMedia]_vars

\* ---------------------------------------------------------------------- feed
\* user 2 dislikes and subscribes to topics, articles are created with and
\* without a category, users 2 and 3 and nobody ask for their feed
FeedTopics == {"news", "sport"}

NextFeed ==
    \/ CreateRequest(1, {[NoBody EXCEPT !.title = "B", !.content = "text", !.author = Bob,
                                        !.category = c] : c \in {"sport", ""}})
    \/ \E kind \in {"dislikes", "subscriptions"}, t \in FeedTopics :
           \/ PreferenceAdd(1, kind, [NoBody EXCEPT !.userId = 2, !.topic = t])
           \/ PreferenceRemove(1, kind, [NoBody EXCEPT !.userId = 2, !.topic = t])
    \/ \E u \in {0, 2, 3} : UserArticles(1, [NoBody EXCEPT !.userId = u])

SpecFeed == InitServing /\ [][NextFeed]_vars

\* ------------------------------------------------- preference memberships
PrefBodies ==
    {[NoBody EXCEPT !.userId = 2, !.topic = t] : t \in {"k", "j"}}
        \cup {[NoBody EXCEPT !.userId = 2]}

NextPrefs ==
    \E kind \in PrefKinds, body \in PrefBodies :
        \/ PreferenceAdd(1, kind, body)
        \/ PreferenceRemove(1, kind, body)

SpecPrefs == InitServing /\ [][NextPrefs]_vars

\* ------------------------------------------------------------ store failures
\* one request at a time; any statement sent to the store may be rejected
NextFailures ==
    \/ \E s \in MediaIds : MediaStart(1, s)
    \/ MediaQuery(1)
    \/ MediaFill(1)
    \/ MediaQueryFails(1)
    \/ ReadRequestSteps(1, {ReadEvent(2, <<"k">>)})
    \/ \E outcome \in Thrown : ReadFails(1, outcome)
    \/ \E body \in PrefBodies : PreferenceAdd(1, "interests", body)
    \/ \E body \in PrefBodies, outcome \in Thrown :
           PreferenceAddFails(1, "interests", body, outcome)

SpecFailures == InitMedia /\ [][NextFailures]_vars

\* ------------------------------------------------------------------ comments
\* an admin, a moderator and an editor
Moderated == [SeedUsers EXCEPT ![2].role = "moderator"]

InitComments ==
    /\ articles \in InitArticles
    /\ nextId = 2
    /\ users = Moderated
    /\ nextUserId = 4
    /\ keywords = {}
    /\ visuals = VisualList
    /\ prefs = [kind \in PrefKinds |-> {}]
    /\ reads = NoReads
    /\ comments = [c \in CommentIds |-> NoComment]
    /\ nextCommentId = 1
    /\ cache = prefetchArticles(articles)
    /\ reqs = [r \in Slots |-> Idle]
    /\ lastDone = NoDone
    /\ likeReqs = 0
    /\ initial = articles
    /\ startup = "listening"

CommentBodies ==
    {[NoBody EXCEPT !.username = Carol, !.text = t] : t \in {"t", "s"}}
        \cup {[NoBody EXCEPT !.username = Carol]}

\* acting users: none, the admin, the moderator, the editor, an unknown id
DeleterIds == {0, 1, 2, 3, MaxUsers + 1}

NextComments ==
    \/ \E s \in {<<"1">>, <<"2">>}, body \in CommentBodies : PostComment(1, s, body)
    \/ \E s \in {<<"1">>, <<"2">>} : GetComments(1, s)
    \/ \E s \in {<<"1">>, <<"2">>, <<"0", "1">>}, u \in DeleterIds :
            DeleteComment(1, s, [NoBody EXCEPT !.userId = u])

SpecComments == InitComments /\ [][NextComments]_vars

\* ----------------------------------- everything that could touch a user's role
\* an admin and an editor; the next registration gets id 3
TwoUsers == [u \in UserIds |-> IF u <= 2 THEN SeedUsers[u] ELSE NoUser]

InitRoles ==
    /\ articles \in {arts \in InitArticles : arts[1].likes = 0}
    /\ nextId = 2
    /\ users = TwoUsers
    /\ nextUserId = 3
    /\ keywords = {}
    /\ visuals = VisualList
    /\ prefs = [kind \in PrefKinds |-> {}]
    /\ reads = NoReads
    /\ comments = [c \in CommentIds |-> NoComment]
    /\ nextCommentId = 1
    /\ cache = prefetchArticles(articles)
    /\ reqs = [r \in Slots |-> Idle]
    /\ lastDone = NoDone
    /\ likeReqs = 0
    /\ initial = articles
    /\ startup = "listening"

Rob == <<"r", "o", "b">>

\* ----------------------------------------------------------------- passwords
\* "Passw" followed by two to MaxTail characters: a digit, a symbol of the
\* set, a character outside the pattern's class, and a letter
TailChars == {"0", "!", "_", "a"}

Passwords ==
    {<<"P", "a", "s", "s", "w">> \o tail :
        tail \in UNION {[1..n -> TailChars] : n \in 2..MaxTail}}

NextPasswords == RegisterRequest(1, {Person(Alice, pw) : pw \in Passwords})

SpecPasswords == InitAuth /\ [][NextPasswords]_vars

\* ------------------------------------------------------------ profile updates
\* bob asks for his own name in another case, alice's name in another case or
\* a fresh one, with his own email in another case, alice's email in another
\* case or a fresh one; carol asks for bob's name or the fresh one
ProfileBodies ==
    {[NoBody EXCEPT !.userId = 2, !.username = n, !.email = e] :
        n \in {Capital(Bob), Capital(Alice), Rob},
        e \in {Capital(MailOf(Bob)), Capital(MailOf(Alice)), MailOf(Rob)}}
    \cup {[NoBody EXCEPT !.userId = 3, !.username = n, !.email = MailOf(Carol)] :
             n \in {Capital(Bob), Rob}}

NextProfile ==
    \/ \E body \in ProfileBodies : ProfileCheck(1, body)
    \/ ProfileUpdate(1)

SpecProfile == InitServing /\ [][NextProfile]_vars

\* --------------------------------------------------------------------- login
\* bob's email as registered and in another case, a wrong password, an email
\* nobody registered, and a body without an email
LoginBodies ==
    {[NoBody EXCEPT !.email = e, !.password = pw] :
        e \in {MailOf(Bob), Capital(MailOf(Bob)), MailOf(Rob)},
        pw \in {GoodPassword, WeakPassword}}
        \cup {[NoBody EXCEPT !.password = GoodPassword]}

NextLogin ==
    \/ RegisterRequest(1, {Person(name, GoodPassword) : name \in {Alice, Bob, Carol}})
    \/ \E body \in LoginBodies : Login(1, body)

SpecLogin == InitAuth /\ [][NextLogin]_vars

\* bob asks for roles, and alice, the admin, for bob's
RoleBodies ==
    {[NoBody EXCEPT !.userId = u, !.targetUserId = 2, !.role = "moderator"] : u \in {1, 2}}

BobBody == [NoBody EXCEPT !.userId = 2]

RoleRoutes == {"assign_role", "user_role"}

NextRoles ==
    \/ RegisterRequest(1, {Person(Carol, GoodPassword)})
    \/ Login(1, [NoBody EXCEPT !.email = MailOf(Bob), !.password = GoodPassword])
    \/ BiographyCheck(1, [BobBody EXCEPT !.biography = "bio"])
    \/ BiographyUpdate(1)
    \/ ProfileCheck(1, [BobBody EXCEPT !.username = Rob, !.email = MailOf(Bob)])
    \/ ProfileUpdate(1)
    \/ \E route \in RoleRoutes, body \in RoleBodies : AdminArrive(1, route, <<"2">>, body)
    \/ \E outcome \in Thrown : AdminCheck(1, outcome)
    \/ AssignExec(1)
    \/ PreferenceAdd(1, "interests", [BobBody EXCEPT !.topic = "k"])
    \/ PreferenceRemove(1, "interests", [BobBody EXCEPT !.topic = "k"])
    \/ ReadArticle(1, [BobBody EXCEPT !.articleId = 1, !.keywords = <<"k">>,
                                      !.isArray = TRUE])
    \/ PostComment(1, <<"1">>, [NoBody EXCEPT !.username = Bob, !.text = "t"])
    \/ DeleteComment(1, <<"1">>, BobBody)
    \/ PutRequest(1, CanonIds, ConcBodies)

SpecRoles == InitRoles /\ [][NextRoles]_vars

\* ------------------------------------------- role assignments, one at a time
\* alice (admin) and bob assign a role to alice, to bob and to id 3, which no
\* user of TwoUsers has
TargetBodies ==
    {[NoBody EXCEPT !.userId = u, !.targetUserId = t, !.role = role] :
        u \in {1, 2}, t \in {1, 2, 3}, role \in {"admin", "editor", "moderator"}}

NextAssign ==
    \/ \E body \in TargetBodies : AdminArrive(1, "assign_role", <<"1">>, body)
    \/ \E outcome \in Thrown : AdminCheck(1, outcome)
    \/ AssignExec(1)

SpecAssign == InitRoles /\ [][NextAssign]_vars

\* ------------------------- routes that act for a user, with and without one
\* every body is sent once by bob (id 2) and once with no userId
ActorBodies(body) == {[body EXCEPT !.userId = u] : u \in {0, 2}}

NextActors ==
    \/ \E kind \in PrefKinds, body \in ActorBodies([NoBody EXCEPT !.topic = "k"]) :
            \/ PreferenceAdd(1, kind, body)
            \/ PreferenceRemove(1, kind, body)
    \/ ReadRequestSteps(1, ActorBodies(ReadEvent(0, <<"k">>)))
    \/ \E body \in ActorBodies([NoBody EXCEPT !.username = Rob, !.email = MailOf(Rob)]) :
            ProfileCheck(1, body)
    \/ ProfileUpdate(1)
    \/ \E body \in ActorBodies(NoBody) : DeleteComment(1, <<"1">>, body)
    \/ \E route \in AdminRoutes, body \in ActorBodies(NoBody) :
            AdminArrive(1, route, <<"1">>, body)
    \/ \E outcome \in Thrown : AdminCheck(1, outcome)

SpecActors == InitServing /\ [][NextActors]_vars

\* ------------- read events of bob for "k" and his removals of "k", interleaved
BobReadsK == ReadEvent(2, <<"k">>)

BobRemovesK == [NoBody EXCEPT !.userId = 2, !.topic = "k"]

NextReadRemove ==
    \E r \in Slots :
        \/ ReadRequestSteps(r, {BobReadsK})
        \/ PreferenceRemove(r, "interests", BobRemovesK)

SpecReadRemove == InitServing /\ [][NextReadRemove]_vars

\* =================================================================== claims
Done(rec, op) == rec.op = op /\ rec.pc = "done"

\* the article a read of id g asks the store for is the one a write to id w matched
SameArticle(w, g) == StoreNum(w) = StoreNum(PadStart(Trim(g), 3))

\* C1: with no other request in flight, the GET /api/articles/X that follows a
\* successful PUT /api/articles/:id of article X returns the fields of the
\* updated store row, never an older cached copy.
C1_GetAfterPutIsFresh ==
    \A r \in Slots :
        (/\ Done(reqs[r], "get")
         /\ reqs[r].pred.op = "put"
         /\ SameArticle(reqs[r].pred.id, reqs[r].id))
        => /\ reqs[r].status = 200
           /\ reqs[r].article = mapArticleFields(ArticleOf(articles, reqs[r].pred.id))

\* C2: with no other request in flight, after a successful DELETE of article X
\* the next GET /api/articles does not list X and the next GET /api/articles/X
\* answers 404.
C2_ReadsAfterDeleteMissIt ==
    \A r \in Slots :
        /\ (Done(reqs[r], "list") /\ reqs[r].pred.op = "delete")
            => \A row \in reqs[r].rows : row.article_id # StoreNum(reqs[r].pred.id)
        /\ (Done(reqs[r], "get") /\ reqs[r].pred.op = "delete"
                /\ SameArticle(reqs[r].pred.id, reqs[r].id))
            => reqs[r].status = 404

\* C4: a PUT /api/articles/:id by an editor who is not the article's author is
\* answered 403 and leaves the row unchanged; by the editor who is the author
\* it succeeds.
C4_EditorUpdatesOwnArticlesOnly ==
    \A r \in Slots :
        LET rec == reqs[r]
            user == UserOf(users, rec.body.userId)
        IN  (Done(rec, "put") /\ user.role = "editor" /\ rec.row.article_id # 0)
            => IF rec.row.author = user.username
               THEN rec.status = 200
               ELSE rec.status = 403 /\ ~rec.wrote

\* the role values the specification enumerates for stored users
EnumeratedRoles == {"user", "editor", "moderator", "admin"}

\* the acting user of a request resolves to a stored user whose role is admin
ActsAsAdmin(us, rec) ==
    /\ rec.body.userId \in UserIds
    /\ us[rec.body.userId].id # 0
    /\ us[rec.body.userId].role = "admin"

\* C5: a step of a request to a route under /api/admin/ whose acting user id is
\* missing, resolves to no user, or resolves to a user who is not admin leaves
\* the store unchanged, and the request's answer is 403.
C5_NonAdminIsRefused ==
    [][\A r \in Slots :
          LET rec == reqs'[r]
          IN  (rec # reqs[r] /\ rec.op \in AdminRoutes /\ ~ActsAsAdmin(users, rec))
              => /\ store' = store
                 /\ rec.pc \in {"admin_check", "done"}
                 /\ rec.pc = "done" => rec.status = 403]_vars

\* an admin DELETE by a registered user whose role is user, refused, the article kept
C5_Witness ==
    \E r \in Slots :
        /\ Done(reqs[r], "admin_delete") /\ reqs[r].status = 403
        /\ UserOf(users, reqs[r].body.userId).role = "user"
        /\ ArticleOf(articles, reqs[r].id).article_id # 0

\* C6: every stored user's role is one of user, editor, moderator, admin;
\* a registration stores admin or user; a role-assignment request carrying any
\* other role value stores nothing and is answered 400 (403 when its acting
\* user is not an admin, who is refused before the role is looked at).
C6_StoredRolesAreEnumerated ==
    /\ \A u \in UserIds : users[u].id # 0 => users[u].role \in EnumeratedRoles
    /\ \A r \in Slots :
          LET rec == reqs[r]
          IN  /\ (Done(rec, "register") /\ rec.status = 201)
                  => /\ users[rec.insertId].role \in {"admin", "user"}
                     /\ users[rec.insertId].role = rec.assignedRole
              /\ (rec.pc = "done" /\ rec.op \in {"assign_role", "user_role"}
                      /\ rec.body.role \notin EnumeratedRoles)
                  => /\ ~rec.wrote
                     /\ rec.status = IF ActsAsAdmin(users, rec) THEN 400 ELSE 403

\* an admin's assignment of a role outside the enumeration, answered 400, after
\* an assignment that was stored
C6_Witness ==
    \E r \in Slots :
        /\ Done(reqs[r], "assign_role") /\ reqs[r].status = 400
        /\ reqs[r].body.role \notin EnumeratedRoles
        /\ ActsAsAdmin(users, reqs[r])
        /\ \E u \in UserIds : users[u].role = "editor"

\* C7: the role of an existing user changes only in the UPDATE of a
\* POST /api/admin/assign-role request that passed the admin check, for its
\* target and to its role; every other step leaves every existing role alone.
C7_RoleChangesOnlyByAssignment ==
    [][\A u \in UserIds :
          (users[u].id # 0 /\ users'[u].role # users[u].role)
          => \E r \in Slots :
                /\ reqs[r].op = "assign_role" /\ reqs[r].pc = "assign_exec"
                /\ reqs'[r].pc = "done"
                /\ reqs[r].passedAdmin /\ ActsAsAdmin(users, reqs[r])
                /\ reqs[r].body.targetUserId = u
                /\ users'[u].role = reqs[r].body.role]_vars

\* bob's role was changed by alice's assignment; his biography and profile
\* updates, carol's registration, a comment and reads have happened too
C7_Witness ==
    /\ users[2].role = "moderator" /\ users[2].biography = "bio"
    /\ users[2].username = Rob
    /\ users[3].id # 0
    /\ nextCommentId > 1
    /\ reads # NoReads
    /\ \E r \in Slots : Done(reqs[r], "assign_role") /\ reqs[r].wrote

\* C11: with registrations handled one at a time, the registration that
\* succeeds against an empty user table stores and returns role admin, and
\* every later one stores and returns role user.
C11_FirstRegistrationIsAdmin ==
    [][\A r \in Slots :
          (reqs[r].pc = "register_insert" /\ reqs'[r].pc = "done" /\ reqs'[r].status = 201)
          => LET role == IF \A u \in UserIds : users[u].id = 0 THEN "admin" ELSE "user"
             IN  /\ reqs'[r].assignedRole = role
                 /\ users'[reqs'[r].insertId].role = role
                 /\ users[reqs'[r].insertId].id = 0]_vars

\* the second registration has succeeded with role user, after the first
C11_Witness ==
    \E r \in Slots :
        /\ Done(reqs[r], "register") /\ reqs[r].status = 201
        /\ reqs[r].insertId = 2 /\ reqs[r].assignedRole = "user"
        /\ users[2].role = "user" /\ users[1].id = 1

\* two texts are equal when letter case is ignored
SameText(a, b) == toLowerCase(a) = toLowerCase(b)

\* C13: a registration with all fields and a strong password whose username or
\* email equals, ignoring case, that of an existing user is answered 400 and
\* creates no user; usernameExists and emailExists tell which of the two match.
C13_DuplicateRegistrationRejected ==
    \A r \in Slots :
        LET rec == reqs[r]
            others == {u \in UserIds : users[u].id # 0 /\ (rec.wrote => u # rec.insertId)}
            nameTaken == \E u \in others : SameText(users[u].username, rec.body.username)
            mailTaken == \E u \in others : SameText(users[u].email, rec.body.email)
        IN  (/\ Done(rec, "register")
             /\ rec.body.password = GoodPassword /\ rec.body.country # ""
             /\ rec.body.firstName # "" /\ rec.body.lastName # ""
             /\ (nameTaken \/ mailTaken))
            => /\ rec.status = 400
               /\ ~rec.wrote
               /\ rec.usernameExists = nameTaken
               /\ rec.emailExists = mailTaken

\* "Alice" is refused because "alice" exists: the username matches, the email does not
C13_Witness ==
    \E r \in Slots :
        /\ Done(reqs[r], "register") /\ reqs[r].status = 400
        /\ reqs[r].body.username = Capital(Alice)
        /\ reqs[r].usernameExists /\ ~reqs[r].emailExists
        /\ \E u \in UserIds : users[u].username = Alice

\* C12: under any interleaving of registrations that start from an empty user
\* table, exactly one of the users created has role admin.
C12_ExactlyOneAdminByRegistration ==
    (\E u \in UserIds : users[u].id # 0)
        => Cardinality({u \in UserIds : users[u].id # 0 /\ users[u].role = "admin"}) = 1

\* C14: under any interleaving of registrations and profile updates, no two
\* distinct users have usernames equal ignoring case, or emails equal ignoring case.
C14_NamesAndEmailsUnique ==
    \A u, w \in UserIds :
        (u # w /\ users[u].id # 0 /\ users[w].id # 0)
        => /\ ~SameText(users[u].username, users[w].username)
           /\ ~SameText(users[u].email, users[w].email)

\* the interest records of user u for keyword k
InterestRecords(u, k) == {p \in prefs["interests"] : p = <<u, k>>}

\* C15: with read-article events handled one at a time, each naming a keyword
\* once, the keyword is among the user's interests, exactly once, from the
\* third event on and not before: the third event inserts it, the fourth
\* leaves the interests as they are.
C15_ThirdReadPromotesOnce ==
    \A u \in UserIds, k \in {"k", "j"} :
        (\A r \in Slots : Free(r))
        => Cardinality(InterestRecords(u, k)) =
               IF ReadCount(reads, <<u, k>>) >= InterestThreshold THEN 1 ELSE 0

\* four events for (2, k) have been answered; the interest is there once
C15_Witness ==
    /\ \A r \in Slots : Free(r)
    /\ ReadCount(reads, <<2, "k">>) = InterestThreshold + 1
    /\ prefs["interests"] = {<<2, "k">>}
    /\ \E r \in Slots : Done(reqs[r], "read_article") /\ reqs[r].status = 200

\* C16: under any interleaving of read-article events for one (user, keyword),
\* once all events are answered and the counter is 3 or more, the keyword is
\* among the user's interests, exactly once.
C16_PromotionNeverSkipped ==
    \A k \in {"k", "j"} :
        ((\A r \in Slots : Free(r)) /\ ReadCount(reads, <<2, k>>) >= InterestThreshold)
        => Cardinality(InterestRecords(2, k)) = 1

\* C17: for interests, dislikes and subscriptions alike, every add of a
\* (user, topic) pair succeeds and leaves exactly one record for the pair,
\* however often it is repeated; a remove leaves no record for it.
C17_MembershipIsIdempotent ==
    \A r \in Slots :
        LET rec == reqs[r]
            records == {p \in prefs[rec.kind] : p = <<rec.body.userId, rec.body.topic>>}
        IN  (rec.op \in {"pref_add", "pref_remove"} /\ rec.body.userId # 0
                 /\ rec.body.topic # "")
            => /\ rec.pc = "done" /\ rec.status = 200
               /\ Cardinality(records) = IF rec.op = "pref_add" THEN 1 ELSE 0

\* a subscription that was there already is added again, and the add succeeds
C17_Witness ==
    \E r \in Slots :
        /\ Done(reqs[r], "pref_add") /\ reqs[r].status = 200 /\ ~reqs[r].wrote
        /\ reqs[r].kind = "subscriptions"
        /\ <<2, reqs[r].body.topic>> \in prefs["subscriptions"]

\* C18: DELETE /api/comments/:id removes the comment when the acting user is a
\* stored moderator; with a missing id, an unknown user or any other role,
\* admin included, the request is answered 403 and the comments are unchanged.
C18_OnlyModeratorsDeleteComments ==
    [][\A r \in Slots :
          LET rec == reqs'[r]
              actor == rec.body.userId
          IN  (rec # reqs[r] /\ rec.op = "comment_delete")
              => IF actor \in UserIds /\ users[actor].id # 0
                        /\ users[actor].role = "moderator"
                 THEN /\ rec.status = 200
                      /\ \A c \in CommentIds :
                             comments'[c] = IF comments[c].id = StoreNum(rec.id)
                                            THEN NoComment ELSE comments[c]
                 ELSE rec.status = 403 /\ comments' = comments]_vars

\* the admin was refused while the comment exists, which stays
C18_Witness ==
    \E r \in Slots :
        /\ Done(reqs[r], "comment_delete") /\ reqs[r].status = 403
        /\ UserOf(users, reqs[r].body.userId).role = "admin"
        /\ comments[1].id = StoreNum(reqs[r].id)

\* C19: GET /api/media/:id answers 404 when the article has no media item,
\* whether the store was queried or a cache entry used, and answers the mapped
\* items, at least one, otherwise.
C19_MediaOfNoItemsIs404 ==
    \A r \in Slots :
        LET rec == reqs[r]
            items == {row \in visuals : row.article_id = StoreNum(Trim(rec.id))}
        IN  (Done(rec, "media") /\ Trim(rec.id) # <<>>)
            => IF items = {}
               THEN rec.status = 404
               ELSE rec.status = 200 /\ rec.rows = mapVisualFields(items)

\* C20: a request during which a statement was rejected by the store is
\* answered, and answered with status 500.
C20_StoreFailureAnswered500 ==
    \A r \in Slots :
        reqs[r].failed => reqs[r].pc = "done" /\ reqs[r].status = 500

\* C21: a login answered 200 returns the stored row of the user whose email
\* equals the given one ignoring case and whose password matches, without the
\* password field; a login with an unknown email or a wrong password is
\* answered 401 and returns no user data.
C21_LoginReturnsUserWithoutPassword ==
    \A r \in Slots :
        LET rec == reqs[r]
            known == {u \in UserRows(users) :
                         /\ SameText(u.email, rec.body.email)
                         /\ Compare(rec.body.password, u.password)}
        IN  (Done(rec, "login") /\ rec.body.email # <<>> /\ rec.body.password # <<>>)
            => IF known = {}
               THEN rec.status = 401 /\ rec.user = NoUser
               ELSE /\ rec.status = 200
                    /\ "password" \notin DOMAIN rec.user
                    /\ \E u \in known :
                           /\ DOMAIN rec.user = (DOMAIN u) \ {"password"}
                           /\ \A f \in DOMAIN rec.user : rec.user[f] = u[f]

\* bob, registered second, has logged in with his email in another case
C21_Witness ==
    \E r \in Slots :
        /\ Done(reqs[r], "login") /\ reqs[r].status = 200
        /\ reqs[r].body.email = Capital(MailOf(Bob))
        /\ reqs[r].user.username = Bob /\ reqs[r].user.role = "user"

\* C22: the feed answered by GET /api/user/articles holds exactly the stored
\* articles whose category the user does not dislike, and its subscriptions
\* list exactly the stored articles whose category the user subscribed to.
C22_FeedExcludesDislikes ==
    \A r \in Slots :
        LET rec == reqs[r]
            u == rec.body.userId
        IN  (Done(rec, "feed") /\ u # 0)
            => /\ rec.status = 200
               /\ rec.rows = {a \in AllRows(articles) :
                                 <<u, a.category>> \notin prefs["dislikes"]}
               /\ rec.subscriptions = {a \in AllRows(articles) :
                                 <<u, a.category>> \in prefs["subscriptions"]}

\* with two articles stored, user 2's feed leaves the disliked one out and the
\* subscribed one is listed
C22_Witness ==
    \E r \in Slots :
        /\ Done(reqs[r], "feed") /\ reqs[r].body.userId = 2
        /\ Cardinality(AllRows(articles)) = 2
        /\ Cardinality(reqs[r].rows) = 1
        /\ Cardinality(reqs[r].subscriptions) = 1

\* C23: registration accepts a password if and only if it has at least 8
\* characters, a lowercase letter, an uppercase letter, a digit and a symbol of
\* @$!%*?&, whatever its other characters are.  (A registration is refused for
\* its password when it is answered 400 without a duplicate being reported.)
C23_PasswordAcceptedIffStrong ==
    \A r \in Slots :
        LET rec == reqs[r]
            pw == rec.body.password
            strong == /\ Len(pw) >= 8
                      /\ \E i \in 1..Len(pw) : IsLower(pw[i])
                      /\ \E i \in 1..Len(pw) : IsUpper(pw[i])
                      /\ \E i \in 1..Len(pw) : IsDigit(pw[i])
                      /\ \E i \in 1..Len(pw) : pw[i] \in {"@", "$", "!", "%", "*", "?", "&"}
            refused == /\ rec.pc = "done" /\ rec.status = 400
                       /\ ~rec.usernameExists /\ ~rec.emailExists
        IN  (rec.op = "register" /\ rec.body.username # <<>>) => (strong <=> ~refused)

\* C24: once PUT or DELETE /api/admin/articles/:id of article X is answered
\* 200, the cache holds neither all_articles nor article_<X>.
C24_AdminWriteInvalidates ==
    \A r \in Slots :
        LET rec == reqs[r]
        IN  (rec.pc = "done" /\ rec.op \in {"admin_put", "admin_delete"}
                 /\ rec.status = 200)
            => /\ ~CacheHas(cache, AllArticlesKey)
               /\ ~CacheHas(cache, ArticleKey(PadStart(Trim(rec.id), 3)))

\* C25: once DELETE /api/articles/X is answered 200, the cache holds no entry
\* under the key GET /api/media/X reads, visuals_<X trimmed>, whoever wrote it.
C25_DeleteInvalidatesMedia ==
    \A r \in Slots :
        LET rec == reqs[r]
        IN  (Done(rec, "delete") /\ rec.status = 200)
            => ~CacheHas(cache, VisualsKey(Trim(rec.id)))

\* C26: a step changes the stored like count of an article that stays stored
\* only as the write of a like or unlike request, and then by exactly one.
C26_OnlyLikesChangeLikes ==
    [][\A a \in ArticleIds :
          (/\ articles[a].article_id # 0 /\ articles'[a].article_id # 0
           /\ articles'[a].likes # articles[a].likes)
          => /\ \E r \in Slots : reqs[r].pc = "like_write" /\ reqs'[r].pc = "like_fin"
             /\ articles'[a].likes - articles[a].likes \in {1, -1}]_vars

\* C27: no step of an update, delete or like request whose target article is
\* not stored changes the cache, and the request is answered 404; no step of
\* such a request that ends in a store failure changes the cache.
C27_NotFoundLeavesCache ==
    [][\A r \in Slots :
          LET rec == reqs'[r]
              missing == IF reqs[r].pc \in {"put_fin", "delete_fin"}
                         THEN rec.row.article_id = 0
                         ELSE MatchIds(articles, rec.id) = {}
          IN  (rec # reqs[r] /\ rec.op \in {"put", "delete", "like"})
              => /\ (missing /\ ~rec.failed)
                        => /\ cache' = cache
                           /\ rec.pc = "done" => rec.status = 404
                 /\ rec.failed => cache' = cache /\ rec.status = 500]_vars

\* an update of an article that is not stored was answered 404 with the cache
\* filled
C27_Witness ==
    \E r \in Slots :
        /\ Done(reqs[r], "put") /\ reqs[r].status = 404
        /\ CacheHas(cache, AllArticlesKey)

\* C28: once an update or delete of a row is answered 200, the cache holds no
\* entry under the key GET /api/articles/:id uses for any spelling of the id
\* that the store resolves to that row.
C28_OneKeyPerRow ==
    \A r \in Slots :
        LET rec == reqs[r]
        IN  (rec.pc = "done" /\ rec.op \in {"put", "delete"} /\ rec.status = 200)
            => \A s \in IdStrings :
                   StoreNum(s) = StoreNum(rec.id)
                   => ~CacheHas(cache, ArticleKey(PadStart(Trim(s), 3)))

\* C29: the step that answers a create with 201 removes all_articles from the
\* cache and leaves every other entry as it was; the list read that follows a
\* create, with no other request in flight, holds every stored article, the new
\* one included.
C29_CreateInvalidatesList ==
    [][\A r \in Slots :
          /\ (reqs[r].pc = "create_fin" /\ reqs'[r].pc = "done" /\ reqs'[r].status = 201)
               => /\ ~CacheHas(cache', AllArticlesKey)
                  /\ DOMAIN cache' = (DOMAIN cache) \ {AllArticlesKey}
                  /\ \A k \in DOMAIN cache' : cache'[k] = cache[k]
          /\ (Done(reqs'[r], "list") /\ reqs'[r].pred.op = "create")
               => /\ reqs'[r].rows = AllRows(articles')
                  /\ \E row \in reqs'[r].rows : row.article_id = nextId' - 1]_vars

\* the list read after a create holds both articles; the cache held a list
\* before the create
C29_Witness ==
    \E r \in Slots :
        /\ Done(reqs[r], "list") /\ reqs[r].pred.op = "create"
        /\ Cardinality(reqs[r].rows) = 2
        /\ initial # articles
        /\ CacheHas(cache, ArticleKey(<<"0", "0", "1">>))

\* C30: a step creates an article row only for a request whose acting user is
\* a stored admin, and removes one only for a request whose acting user is a
\* stored admin or an editor whose username is the article's author.
C30_CreateAndDeleteNeedPermission ==
    [][\A a \in ArticleIds :
          LET created == articles[a].article_id = 0 /\ articles'[a].article_id # 0
              removed == articles[a].article_id # 0 /\ articles'[a].article_id = 0
          IN  (created \/ removed)
              => \E r \in Slots :
                     LET user == UserOf(users, reqs'[r].body.userId)
                     IN  /\ reqs'[r] # reqs[r]
                         /\ user.id # 0
                         /\ \/ user.role = "admin"
                            \/ /\ removed /\ user.role = "editor"
                               /\ user.username = articles[a].author]_vars

\* C31: a POST /api/admin/articles by a stored admin that carries a title and
\* content is answered 201 and has added one article row holding its ads.
C31_AdminCreateAddsArticle ==
    \A r \in Slots :
        LET rec == reqs[r]
        IN  (/\ Done(rec, "admin_create") /\ rec.passedAdmin
             /\ rec.body.title # "" /\ rec.body.content # "")
            => /\ rec.status = 201
               /\ \E row \in AllRows(articles) :
                      /\ row.headline_title = rec.body.title /\ row.ads = rec.body.ads
                      /\ row \notin AllRows(initial)

\* C32: with requests handled one at a time, every read of the cached server
\* is answered with the status and body the cache-less server gives for it on
\* the same articles table.
C32_AnswersAsWithoutCache ==
    \A r \in Slots :
        LET rec == reqs[r]
        IN  /\ Done(rec, "get")
               => /\ rec.status = CopyGet(articles, rec.id).status
                  /\ rec.status = 200 => rec.article = CopyGet(articles, rec.id).article
            /\ Done(rec, "list")
               => /\ rec.status = CopyList(articles).status
                  /\ rec.rows = CopyList(articles).rows

\* every cache entry the article reads use holds what the store holds now
CacheIsCurrent ==
    /\ CacheHas(cache, AllArticlesKey) => cache[AllArticlesKey] = AllRows(articles)
    /\ \A s \in IdStrings :
           LET articleId == PadStart(Trim(s), 3)
           IN  CacheHas(cache, ArticleKey(articleId))
               => /\ MatchIds(articles, articleId) # {}
                  /\ cache[ArticleKey(articleId)] = ArticleOf(articles, articleId)

\* C33: if from some point on no step writes the articles table, then from
\* some point on the cache holds only current data, so every read of an
\* article or of the list from then on returns what the store holds.
C33_StaleEntriesExpire ==
    (<>[][articles' = articles]_vars) => <>[]CacheIsCurrent

\* the entry that the update by another spelling left stale has expired, and
\* the read of the article returned the updated row
C33_Witness ==
    \E r \in Slots :
        /\ Done(reqs[r], "get") /\ reqs[r].status = 200
        /\ reqs[r].pred.op = "put" /\ reqs[r].pred.id = <<"0", "0", "0", "1">>
        /\ reqs[r].article.title = "B"
        /\ CacheIsCurrent

\* C34: no request is taken and no handler runs before the warmup has finished
\* or failed, so no warmup write follows an invalidation; and when the warmup
\* has run through, at the step that starts listening all_articles holds the
\* stored articles and each article_<padded id> entry the stored row.
C34_NoRequestBeforeWarmup ==
    [][/\ startup # "listening"
          => /\ reqs' = reqs /\ articles' = articles
             /\ \A r \in Slots : reqs[r].pc = "idle"
             /\ \A k \in DOMAIN cache : k \in DOMAIN cache'
       /\ (startup = "prefetchComments" /\ startup' = "listening")
          => /\ CacheHas(cache', AllArticlesKey)
             /\ cache'[AllArticlesKey] = AllRows(articles')
             /\ \A a \in ArticleIds :
                    LET k == ArticleKey(PadStart(toString(a), 3))
                    IN  IF articles'[a].article_id = 0 THEN ~CacheHas(cache', k)
                        ELSE CacheHas(cache', k) /\ cache'[k] = articles'[a]]_vars

\* the warmup ran through and a read was then answered from the cache it filled
C34_Witness ==
    /\ startup = "listening"
    /\ CacheHas(cache, <<"all_comments">>)
    /\ \E r \in Slots : Done(reqs[r], "get") /\ reqs[r].status = 200
    /\ CacheHas(cache, AllArticlesKey)

\* C35: no step of a GET /api/articles creates, changes or removes a cache key
\* other than all_articles, and the step that answers a miss stores the rows
\* it returns under all_articles.
C35_ListFillsOnlyTheList ==
    [][\A r \in Slots :
          (reqs'[r] # reqs[r] /\ reqs'[r].op = "list")
          => /\ \A k \in ((DOMAIN cache) \cup (DOMAIN cache')) \ {AllArticlesKey} :
                    /\ k \in DOMAIN cache /\ k \in DOMAIN cache'
                    /\ cache'[k] = cache[k]
             /\ reqs[r].pc = "list_fill"
                    => /\ CacheHas(cache', AllArticlesKey)
                       /\ cache'[AllArticlesKey] = reqs'[r].rows]_vars

\* a list read missed and filled all_articles; the stored article has no key
\* of its own
C35_Witness ==
    \E r \in Slots :
        /\ Done(reqs[r], "list") /\ reqs[r].rows # {}
        /\ CacheHas(cache, AllArticlesKey)
        /\ ~CacheHas(cache, ArticleKey(<<"0", "0", "1">>))

\* C36: with requests handled one at a time, a profile update whose username
\* or email equals, ignoring case, that of another user is answered 400 and
\* changes no user; one that collides with nobody but the acting user is
\* answered 200 and stored; and no two users ever share a username or an email
\* ignoring case.
C36_ProfileUpdateKeepsUnique ==
    [][\A r \in Slots :
          LET rec == reqs'[r]
              uid == rec.body.userId
              clash == \E u \in UserRows(users) :
                           /\ u.id # uid
                           /\ \/ SameText(u.username, rec.body.username)
                              \/ SameText(u.email, rec.body.email)
          IN  (rec # reqs[r] /\ rec.op = "profile")
              => /\ IF clash
                    THEN rec.pc = "done" /\ rec.status = 400 /\ users' = users
                    ELSE rec.pc = "done"
                         => /\ rec.status = 200
                            /\ users'[uid].username = rec.body.username
                            /\ SameText(users'[uid].email, rec.body.email)
                 /\ \A u, w \in UserRows(users') :
                        u.id # w.id => /\ ~SameText(u.username, w.username)
                                       /\ ~SameText(u.email, w.email)]_vars

\* bob's update to his own name and email in another case was accepted
C36_Witness ==
    \E r \in Slots :
        /\ Done(reqs[r], "profile") /\ reqs[r].status = 200
        /\ reqs[r].body.userId = 2 /\ reqs[r].body.username = Capital(Bob)
        /\ reqs[r].body.email = Capital(MailOf(Bob))
        /\ users[2].username = Capital(Bob)

\* C38: a role assignment by an admin whose target identifier matches no user
\* is answered 404 and changes no user.
C38_UnknownTargetIs404 ==
    [][\A r \in Slots :
          LET rec == reqs'[r]
          IN  (/\ rec # reqs[r] /\ Done(rec, "assign_role") /\ rec.passedAdmin
               /\ UserOf(users, rec.body.targetUserId).id = 0)
              => rec.status = 404 /\ users' = users]_vars

\* C37: a request to a route that acts for a user (preferences add and remove,
\* read-article tracking, profile update, comment delete, the admin routes) that
\* carries no user identifier is answered 403.
C37_NoActorIs403 ==
    \A r \in Slots :
        LET rec == reqs[r]
        IN  (/\ rec.pc = "done" /\ rec.body.userId = 0
             /\ rec.op \in {"pref_add", "pref_remove", "read_article", "profile",
                            "comment_delete"} \cup AdminRoutes)
            => rec.status = 403

\* a DELETE /api/user/interests of bob has removed "k", which only a promotion
\* can have stored, the keyword is absent, and no read event is in flight: every
\* read event that acts from here on arrives after the removal
RemovedAfterPromotion ==
    /\ <<2, "k">> \notin prefs["interests"]
    /\ \E r \in Slots :
           /\ Done(reqs[r], "pref_remove") /\ reqs[r].wrote
           /\ \A q \in Slots \ {r} : reqs[q].pc \in {"idle", "done"}

C8_LikesNeverNegative ==
    \A a \in ArticleIds : articles[a].likes >= 0

\* C9: an unlike of an article whose like count is 0 returns likes = 0 and
\* leaves the stored count at 0, however many times it is repeated.
C9_UnlikeAtZeroStaysZero ==
    \A r \in Slots :
        LET rec == reqs[r]
        IN  (Done(rec, "like") /\ rec.status = 200 /\ rec.body.action = "unlike"
                /\ rec.seen = 0)
            => /\ rec.likes = 0
               /\ ArticleOf(articles, PadStart(Trim(rec.id), 3)).likes = 0

\* an unlike at 0 that follows another answered like-route request at 0
C9_Witness ==
    \E r \in Slots :
        /\ Done(reqs[r], "like") /\ reqs[r].status = 200
        /\ reqs[r].body.action = "unlike" /\ reqs[r].seen = 0
        /\ reqs[r].pred.op = "like"
        /\ likeReqs >= 2

\* C3: a read that starts after every accepted write has finished its cache
\* invalidation returns the store's data as of those writes.  Stated for the
\* reads during which no further write is accepted: they return the store's
\* current data.
C3_NoStaleReadAfterInvalidation ==
    \A r \in Slots :
        LET rec == reqs[r]
        IN  (rec.pc = "done" /\ rec.op \in ReadOps /\ rec.quiet /\ ~rec.dirty)
            => IF rec.op = "list"
               THEN rec.rows = AllRows(articles)
               ELSE IF ArticleOf(articles, rec.id).article_id = 0
               THEN rec.status = 404
               ELSE rec.status = 200
                    /\ rec.article = mapArticleFields(ArticleOf(articles, rec.id))

\* C10: once n like requests on an article have all completed, with no other
\* write, the stored like count is the initial count plus n.
C10_NoLikeIsLost ==
    (\A r \in Slots : Free(r))
        => articles[1].likes = initial[1].likes + likeReqs

====
